---- MODULE Spec2Model ----
(***************************************************************************)
(* Strata coordinator: worker registry, shard manager (hash ring + epoch   *)
(* shuffler), barrier registry and checkpoint index, modelled from the     *)
(* Rust sources under crates/.                                             *)
(*                                                                         *)
(* Each subsystem has its own specification over the shared variables:     *)
(*   SpecBarrier     WaitBarrier callers racing on the barrier map         *)
(*   SpecMembership  RegisterWorker / DeregisterWorker and the shard       *)
(*                   manager's register_worker / remove_worker             *)
(*   SpecShard       datasets, shuffle cache and shard queries             *)
(*   SpecTwin        two coordinators driven by the same calls             *)
(*   SpecCkpt        checkpoint write pipeline, index and retention        *)
(*   SpecCkptFair    the write pipeline and wait_pending, tasks scheduled  *)
(*                   fairly                                                *)
(*   SpecRegistry    concurrent register calls, heartbeats, liveness sweep *)
(*   SpecEpoch       direct calls on the epoch shuffler                    *)
(*   SpecPipeline    the write pipeline with wait_pending callers          *)
(*   SpecListener    save_async callers, writer task and listener task     *)
(*   SpecWrite       write_checkpoint step by step on the directory, with  *)
(*                   restarts of the process                               *)
(*   SpecRecovery    GetLatestCheckpoint against NotifyCheckpoint and a    *)
(*                   changing membership                                   *)
(*   SpecRing        the hash ring under joins and departures              *)
(*   SpecHeartbeat   unary and streamed heartbeats                         *)
(*   SpecSweep       the liveness sweep against heartbeats and the clock   *)
(*   SpecLimiter     the per-client token buckets of the rate limiter      *)
(*   SpecSave        save_async step by step against the bounded write     *)
(*                   channel of a manager built with any buffer size       *)
(*   SpecShardRace   concurrent register_worker calls on the shard manager *)
(*   SpecRpcRace     concurrent RegisterWorker / DeregisterWorker calls,   *)
(*                   one map operation per step                            *)
(*   SpecLocks       the manager's two RwLocks under every operation       *)
(*   SpecLocksFair   the same with threads running and locks handed over   *)
(*                   in arrival order                                      *)
(***************************************************************************)
EXTENDS Integers, Sequences, FiniteSets, TLC

VARIABLES
    workers,        \* WorkerRegistry.workers: worker id -> stored rank (NoRank = absent)
    rank_counter,   \* WorkerRegistry.rank_counter
    max_workers,    \* WorkerRegistry.max_workers
    last_heartbeat, \* WorkerInfo.last_heartbeat of each record
    progress,       \* WorkerInfo.current_step / current_epoch / current_task of each record
    now,            \* the wall clock read by Utc::now()
    sweep,          \* the check_dead_workers call in progress, and what it did (history)
    hbOut,          \* the answer to the last heartbeat message
    wstate,         \* WorkerInfo.state of each record ("None" = no record)
    reg,            \* WorkerRegistry::register calls in flight, one per caller
    regOk,          \* worker id -> registers that succeeded since its last removal (history)
    barriers,       \* CoordinatorService.barriers: barrier id -> BarrierState object (0 = absent)
    barrierObjs,    \* heap of BarrierState objects (Arc<BarrierState>)
    call,           \* one WaitBarrier invocation per caller: its position and locals
    sm,             \* coordinator -> its ShardManager (datasets, ranks, ring, shuffler)
    lastOp,         \* the shard-manager call made by the last step (history)
    dupRegistered,  \* whether register_worker was ever called for a registered id (history)
    keep_count,     \* CheckpointManagerConfig.keep_count
    checkpoints,    \* CheckpointManager.checkpoints: step -> checkpoint id (0 = no entry)
    pending,        \* CheckpointManager.pending: checkpoint id -> step and write status
    write_chan,     \* write requests queued for the writer task
    event_chan,     \* writer events queued for the listener task
    listener,       \* the listener task: its position and the event in hand
    ext,            \* register_external_checkpoint calls in flight, one per caller
    deleted,        \* storage paths for which remove_file has been spawned
    inserted,       \* every insertion into the step index so far (history)
    next_id,        \* the next unused checkpoint id
    wp,             \* wait_pending calls, one per caller: position and result
    ckptOp,         \* the checkpoint call that returned in the last step (history)
    files,          \* the checkpoint directory: path -> content of the file
    writer,         \* the writer task inside write_checkpoint: [pc, id]
    limiter,        \* the RateLimiter: rate, burst, buckets, last_cleanup, its clock
    write_tx,       \* the write channel as AsyncCheckpointWriter::new made it
    save,           \* save_async calls taken step by step, one per caller
    locks,          \* the manager's two RwLocks: who holds each
    thr             \* the position of each thread inside the operation it runs step by step

vars == <<workers, rank_counter, max_workers, last_heartbeat, progress, now, sweep, hbOut,
          wstate, reg, regOk, barriers, barrierObjs, call, sm, lastOp, dupRegistered,
          keep_count, checkpoints, pending, write_chan, event_chan, listener, ext,
          deleted, inserted, next_id, wp, ckptOp, files, writer, limiter,
          write_tx, save, locks, thr>>
fsVars == <<files, writer>>
saveVars == <<write_tx, save>>
lockVars == <<locks, thr>>
ckptVars == <<keep_count, checkpoints, pending, write_chan, event_chan, listener, ext,
              deleted, inserted, next_id, wp, ckptOp, fsVars, saveVars, lockVars>>
ckptCore == <<keep_count, checkpoints, pending, write_chan, event_chan, listener, ext,
              deleted, inserted, next_id, wp, ckptOp, fsVars, saveVars>>
barrierVars == <<barriers, barrierObjs, call>>
shardVars == <<sm, lastOp, dupRegistered>>
registryVars == <<workers, rank_counter, max_workers, wstate, reg, regOk,
                  last_heartbeat, progress, now, sweep, hbOut>>
nonBarrier == <<registryVars, shardVars, ckptVars, limiter>>
nonCkpt == <<registryVars, barrierVars, shardVars, limiter>>

(***************************************************************************)
(* Bounds                                                                  *)
(***************************************************************************)
NWorkerIds == 3
MaxWorkers == 3
MaxRank == 3
NCallers == 3
VirtualNodes == 2
MaxEpoch == 1
NBaseSeeds == 2
NRegCallers == 2
MaxTime == 2
MaxProgress == 1
HeartbeatTimeout == 1
NWaitCallers == 1

WorkerIds == 1..NWorkerIds
Callers == 1..NCallers
BarrierIds == {"epoch-sync"}
NoRank == -1
Coords == {1, 2}
DatasetIds == {1}
Epochs == 0..MaxEpoch
BaseSeeds == 1..NBaseSeeds
TotalSamples == {0, 3, 6}
ShardSizes == {2}
DatasetSeeds == {42}
NoDataset == [total_shards |-> -1]
NoCache == <<-1>>
NoOp == [op |-> "none", w |-> 0]
MaxStep == 3
MaxCkpts == 3
MaxKeepCount == 2
NExtCallers == 2
Steps == 1..MaxStep
CkptIds == 1..MaxCkpts
KeepCounts == 1..MaxKeepCount
ExtCallers == 1..NExtCallers
NoPending == [step |-> 0, status |-> "None", error |-> "none"]
IdleExt == [pc |-> "idle", id |-> 0, step |-> 0, top |-> FALSE, alone |-> FALSE]
NoCkptOp == [op |-> "none"]
WaitCallers == 1..NWaitCallers
Paths == {"ckpt", "tmp"} \X CkptIds
IdleWriter == [pc |-> "recv", id |-> 0]
NSaveCallers == 2
SaveCallers == 1..NSaveCallers
IdleSave == [pc |-> "idle", id |-> 0, step |-> 0, result |-> "none"]
NThreads == 3
Threads == 1..NThreads
IdleThread == [op |-> "none", pc |-> "idle"]
\* a parking_lot::RwLock: the thread holding it for writing, the threads holding
\* it for reading, and the threads parked on it in arrival order
FreeLock == [writer |-> {}, readers |-> {}, queue |-> <<>>]
FreeLocks == [pending |-> FreeLock, checkpoints |-> FreeLock]

\* AsyncCheckpointWriter::new, line 67: the capacity handed to mpsc::channel is
\* buffer_size / (1024 * 1024).max(16); the method call binds tighter than the
\* division.  mpsc::channel panics on a capacity of 0.
MiB == 1048576
MinCapacity == 16
Max(a, b) == IF a >= b THEN a ELSE b
channel_capacity(buffer_size) == buffer_size \div Max(MiB, MinCapacity)

AsyncCheckpointWriter_new(buffer_size) ==
    [buffer_size |-> buffer_size,
     capacity |-> channel_capacity(buffer_size),
     state |-> IF channel_capacity(buffer_size) = 0 THEN "panicked" ELSE "open"]

\* CheckpointManagerConfig::default, write_buffer_size
DefaultWriteBufferSize == 64 * MiB

\* the write_buffer_size values a manager is configured with
BufferSizes == {0, MiB - 1, MiB, 2 * MiB, 16 * MiB, DefaultWriteBufferSize}
IdleWait == [pc |-> "idle", result |-> "none", slept |-> FALSE, at_end |-> {}, named |-> {},
             before |-> 0]
RegCallers == 1..NRegCallers
Times == 0..MaxTime
ProgressValues == 0..MaxProgress
IdleSweep == [pc |-> "idle", todo |-> {}, dead |-> {}, overdue |-> {}]
NoHbOut == [w |-> 0, status |-> "none", acknowledged |-> FALSE]
IdleReg == [pc |-> "idle", w |-> 0, rank |-> NoRank, result |-> "none"]
\* the states a heartbeat can carry (service.rs, proto_to_core_state)
HeartbeatStates == {"Initializing", "Idle", "LoadingData", "Training", "Checkpointing",
                    "Recovering", "Error"}

(***************************************************************************)
(* Worker registry (runtime-core/src/worker.rs)                            *)
(***************************************************************************)
\* WorkerRegistry::new: no record, the rank counter at 0.
InitRegistry(max) ==
    /\ workers = [w \in WorkerIds |-> NoRank]
    /\ rank_counter = 0
    /\ max_workers = max
    /\ last_heartbeat = [w \in WorkerIds |-> 0]
    /\ progress = [w \in WorkerIds |-> 0]
    /\ now = 0
    /\ sweep = IdleSweep
    /\ hbOut = NoHbOut
    /\ wstate = [w \in WorkerIds |-> "None"]
    /\ reg = [c \in RegCallers |-> IdleReg]
    /\ regOk = [w \in WorkerIds |-> 0]

world_size == Cardinality({w \in WorkerIds : workers[w] # NoRank})

\* WorkerRegistry::register: capacity check, duplicate check, rank from the counter.
RegistryCanRegister(w) ==
    /\ world_size < max_workers
    /\ workers[w] = NoRank

\* register run without interruption: the record is stored in state Idle.
RegistryRegister(w) ==
    /\ RegistryCanRegister(w)
    /\ rank_counter < MaxRank
    /\ workers' = [workers EXCEPT ![w] = rank_counter]
    /\ rank_counter' = rank_counter + 1
    /\ wstate' = [wstate EXCEPT ![w] = "Idle"]
    /\ regOk' = [regOk EXCEPT ![w] = @ + 1]
    /\ last_heartbeat' = [last_heartbeat EXCEPT ![w] = now]
    /\ progress' = [progress EXCEPT ![w] = 0]
    /\ UNCHANGED <<max_workers, reg, now, sweep, hbOut>>

\* WorkerRegistry::deregister: remove the record; nothing else changes.
RegistryDeregister(w) ==
    /\ workers[w] # NoRank
    /\ workers' = [workers EXCEPT ![w] = NoRank]
    /\ wstate' = [wstate EXCEPT ![w] = "None"]
    /\ regOk' = [regOk EXCEPT ![w] = 0]
    /\ last_heartbeat' = [last_heartbeat EXCEPT ![w] = 0]
    /\ progress' = [progress EXCEPT ![w] = 0]
    /\ UNCHANGED <<rank_counter, max_workers, reg, now, sweep, hbOut>>

\* WorkerRegistry::register as it runs: the capacity check, the duplicate check,
\* the rank counter and the insertion are four separate operations on the map
\* and the counter, and calls on other threads run between them.
InFlightBeforeRank == {c \in RegCallers : reg[c].pc \in {"capacity", "duplicate", "rank"}}

RegStart(c, w) ==
    /\ reg[c].pc \in {"idle", "done"}
    /\ rank_counter + Cardinality(InFlightBeforeRank) < MaxRank
    /\ reg' = [reg EXCEPT ![c] = [pc |-> "capacity", w |-> w, rank |-> NoRank,
                                  result |-> "none"]]
    /\ UNCHANGED <<workers, rank_counter, max_workers, wstate, regOk>>
    /\ UNCHANGED <<last_heartbeat, progress, now, sweep, hbOut>>
    /\ UNCHANGED <<barrierVars, shardVars, ckptVars, limiter>>

\* if self.workers.len() >= self.max_workers { return Err(InvalidConfig) }
RegCheckCapacity(c) ==
    /\ reg[c].pc = "capacity"
    /\ reg' = [reg EXCEPT ![c] = IF world_size >= max_workers
                                 THEN [@ EXCEPT !.pc = "done", !.result = "InvalidConfig"]
                                 ELSE [@ EXCEPT !.pc = "duplicate"]]
    /\ UNCHANGED <<workers, rank_counter, max_workers, wstate, regOk>>
    /\ UNCHANGED <<last_heartbeat, progress, now, sweep, hbOut>>
    /\ UNCHANGED <<barrierVars, shardVars, ckptVars, limiter>>

\* if self.workers.contains_key(&worker.id) { return Err(WorkerAlreadyRegistered) }
RegCheckDuplicate(c) ==
    /\ reg[c].pc = "duplicate"
    /\ reg' = [reg EXCEPT ![c] = IF workers[reg[c].w] # NoRank
                                 THEN [@ EXCEPT !.pc = "done",
                                                !.result = "WorkerAlreadyRegistered"]
                                 ELSE [@ EXCEPT !.pc = "rank"]]
    /\ UNCHANGED <<workers, rank_counter, max_workers, wstate, regOk>>
    /\ UNCHANGED <<last_heartbeat, progress, now, sweep, hbOut>>
    /\ UNCHANGED <<barrierVars, shardVars, ckptVars, limiter>>

\* let rank = self.rank_counter.fetch_add(1, SeqCst)
RegFetchAdd(c) ==
    /\ reg[c].pc = "rank"
    /\ reg' = [reg EXCEPT ![c] = [@ EXCEPT !.pc = "insert", !.rank = rank_counter]]
    /\ rank_counter' = rank_counter + 1
    /\ UNCHANGED <<workers, max_workers, wstate, regOk>>
    /\ UNCHANGED <<last_heartbeat, progress, now, sweep, hbOut>>
    /\ UNCHANGED <<barrierVars, shardVars, ckptVars, limiter>>

\* worker.state = Idle; self.workers.insert(worker.id, worker); Ok(result)
RegInsert(c) ==
    /\ reg[c].pc = "insert"
    /\ workers' = [workers EXCEPT ![reg[c].w] = reg[c].rank]
    /\ wstate' = [wstate EXCEPT ![reg[c].w] = "Idle"]
    /\ regOk' = [regOk EXCEPT ![reg[c].w] = @ + 1]
    /\ reg' = [reg EXCEPT ![c] = [@ EXCEPT !.pc = "done", !.result = "Ok"]]
    /\ last_heartbeat' = [last_heartbeat EXCEPT ![reg[c].w] = now]
    /\ progress' = [progress EXCEPT ![reg[c].w] = 0]
    /\ UNCHANGED <<rank_counter, max_workers, now, sweep, hbOut>>
    /\ UNCHANGED <<barrierVars, shardVars, ckptVars, limiter>>

RegDeregister(w) ==
    /\ RegistryDeregister(w)
    /\ UNCHANGED <<barrierVars, shardVars, ckptVars, limiter>>

\* WorkerRegistry::heartbeat: the reported state is stored as it comes.
Heartbeat(w, state) ==
    /\ workers[w] # NoRank
    /\ wstate' = [wstate EXCEPT ![w] = state]
    /\ last_heartbeat' = [last_heartbeat EXCEPT ![w] = now]
    /\ UNCHANGED <<workers, rank_counter, max_workers, reg, regOk, progress, now, sweep, hbOut>>
    /\ UNCHANGED <<barrierVars, shardVars, ckptVars, limiter>>

\* WorkerRegistry::check_dead_workers, one entry of its iteration: a record whose
\* last heartbeat is older than the timeout and whose state is not Dead.
CheckDeadWorkers(w) ==
    /\ workers[w] # NoRank
    /\ wstate[w] # "Dead"
    /\ wstate' = [wstate EXCEPT ![w] = "Dead"]
    /\ UNCHANGED <<workers, rank_counter, max_workers, reg, regOk>>
    /\ UNCHANGED <<last_heartbeat, progress, now, sweep, hbOut>>
    /\ UNCHANGED <<barrierVars, shardVars, ckptVars, limiter>>

RegRegister(w) ==
    /\ RegistryRegister(w)
    /\ UNCHANGED <<barrierVars, shardVars, ckptVars, limiter>>

\* Utc::now() is the system's wall clock: it moves forward, and it is set back
\* when the system time is adjusted.
ClockAdvance ==
    /\ now < MaxTime
    /\ now' = now + 1
    /\ UNCHANGED <<workers, rank_counter, max_workers, wstate, reg, regOk, last_heartbeat,
                   progress, sweep, hbOut>>
    /\ UNCHANGED <<barrierVars, shardVars, ckptVars, limiter>>

ClockStepBack ==
    /\ now > 0
    /\ now' = now - 1
    /\ UNCHANGED <<workers, rank_counter, max_workers, wstate, reg, regOk, last_heartbeat,
                   progress, sweep, hbOut>>
    /\ UNCHANGED <<barrierVars, shardVars, ckptVars, limiter>>

\* the states sampled in heartbeat requests
HbRequestStates == {"Idle", "Training"}

\* A HeartbeatRequest: the worker id, and an optional status carrying the state
\* and the progress fields (step, epoch, task, taken together as one value).
\* Without a status the state defaults to Idle.
HbRequests ==
    {[has_status |-> FALSE, state |-> "Idle", progress |-> 0]}
    \cup {[has_status |-> TRUE, state |-> st, progress |-> pr] :
             st \in HbRequestStates, pr \in ProgressValues}

\* heartbeat (unary, service.rs 344-380): the registry's heartbeat, not_found for
\* an unknown worker; then update_progress when a status came with the request.
RpcHeartbeat(w, req) ==
    /\ IF workers[w] # NoRank
       THEN /\ wstate' = [wstate EXCEPT ![w] = req.state]
            /\ last_heartbeat' = [last_heartbeat EXCEPT ![w] = now]
            /\ progress' = IF req.has_status THEN [progress EXCEPT ![w] = req.progress]
                           ELSE progress
            /\ hbOut' = [w |-> w, status |-> "Ok", acknowledged |-> TRUE]
       ELSE /\ UNCHANGED <<wstate, last_heartbeat, progress>>
            /\ hbOut' = [w |-> w, status |-> "NotFound", acknowledged |-> FALSE]
    /\ UNCHANGED <<workers, rank_counter, max_workers, reg, regOk, now, sweep>>
    /\ UNCHANGED <<barrierVars, shardVars, ckptVars, limiter>>

\* stream_heartbeats (service.rs 714-765), one message: the registry's heartbeat,
\* its error only logged; acknowledged = true is sent back in every case.
StreamHeartbeat(w, req) ==
    /\ IF workers[w] # NoRank
       THEN /\ wstate' = [wstate EXCEPT ![w] = req.state]
            /\ last_heartbeat' = [last_heartbeat EXCEPT ![w] = now]
       ELSE UNCHANGED <<wstate, last_heartbeat>>
    /\ hbOut' = [w |-> w, status |-> "Ok", acknowledged |-> TRUE]
    /\ UNCHANGED <<workers, rank_counter, max_workers, reg, regOk, progress, now, sweep>>
    /\ UNCHANGED <<barrierVars, shardVars, ckptVars, limiter>>

\* WorkerInfo::is_dead: elapsed = now - last_heartbeat converted with to_std();
\* a negative difference does not convert and is replaced by Duration::MAX.
DurationMax == 2147483647

is_dead(w, timeout) ==
    LET elapsed == IF now - last_heartbeat[w] < 0 THEN DurationMax
                   ELSE now - last_heartbeat[w]
    IN elapsed > timeout

\* run_dead_worker_check: one check_dead_workers call per interval.  The call
\* walks the map entry by entry; other calls run between two entries.
\* `overdue` (history) collects the visited records that were not Dead and
\* whose last heartbeat lay more than the timeout before the visit.
SweepStart ==
    /\ sweep.pc = "idle"
    /\ sweep' = [pc |-> "visiting", todo |-> WorkerIds, dead |-> {}, overdue |-> {}]
    /\ UNCHANGED <<workers, rank_counter, max_workers, wstate, reg, regOk, last_heartbeat,
                   progress, now, hbOut>>
    /\ UNCHANGED <<barrierVars, shardVars, ckptVars, limiter>>

SweepVisit(w) ==
    /\ sweep.pc = "visiting"
    /\ w \in sweep.todo
    /\ LET hit == /\ workers[w] # NoRank
                  /\ is_dead(w, HeartbeatTimeout)
                  /\ wstate[w] # "Dead"
           late == /\ workers[w] # NoRank
                   /\ now - last_heartbeat[w] > HeartbeatTimeout
                   /\ wstate[w] # "Dead"
       IN /\ wstate' = IF hit THEN [wstate EXCEPT ![w] = "Dead"] ELSE wstate
          /\ sweep' = [sweep EXCEPT !.todo = @ \ {w},
                                    !.dead = IF hit THEN @ \cup {w} ELSE @,
                                    !.overdue = IF late THEN @ \cup {w} ELSE @]
    /\ UNCHANGED <<workers, rank_counter, max_workers, reg, regOk, last_heartbeat,
                   progress, now, hbOut>>
    /\ UNCHANGED <<barrierVars, shardVars, ckptVars, limiter>>

\* the call returns the ids it marked
SweepReturn ==
    /\ sweep.pc = "visiting"
    /\ sweep.todo = {}
    /\ sweep' = [sweep EXCEPT !.pc = "idle"]
    /\ UNCHANGED <<workers, rank_counter, max_workers, wstate, reg, regOk, last_heartbeat,
                   progress, now, hbOut>>
    /\ UNCHANGED <<barrierVars, shardVars, ckptVars, limiter>>

(***************************************************************************)
(* Rate limiter (coordinator/src/middleware.rs)                            *)
(***************************************************************************)
NClients == 2
MaxRate == 2
MaxBurst == 2
Clients == 1..NClients
Rates == 1..MaxRate
Bursts == 0..MaxBurst

\* cleanup_interval (line 39) and the stale threshold (line 98), in seconds
CleanupInterval == 60
StaleThreshold == 300

\* the instants (seconds on the monotonic clock) at which calls are made
Instants == {0, 1, 61, 300}

NoBucket == [tokens |-> 0, last_update |-> 0, served |-> -1, present |-> FALSE]
NoRlOut == [client |-> 0, allowed |-> FALSE, retry_after |-> <<0, 1>>, at |-> 0]

\* RateLimiter::new; `now` is Instant::now(), `out` the result of the last check
RateLimiter_new(rate, burst) ==
    [rate |-> rate, burst |-> burst, buckets |-> [c \in Clients |-> NoBucket],
     last_cleanup |-> 0, now |-> 0, out |-> NoRlOut]

Min(a, b) == IF a <= b THEN a ELSE b

\* maybe_cleanup: more than cleanup_interval after the last cleanup, the buckets
\* not updated for stale_threshold or longer are dropped
maybe_cleanup(l) ==
    IF l.now - l.last_cleanup > CleanupInterval
    THEN [l EXCEPT !.last_cleanup = l.now,
                   !.buckets = [c \in Clients |->
                                  IF l.buckets[c].present
                                     /\ l.now - l.buckets[c].last_update < StaleThreshold
                                  THEN l.buckets[c] ELSE NoBucket]]
    ELSE l

\* entry(client).or_insert_with: a full bucket for a client without one.
\* served (history): how many requests the bucket allowed at the instant it
\* was created; -1 once time has moved on.
or_insert(l, b) ==
    IF b.present THEN b
    ELSE [tokens |-> l.burst, last_update |-> l.now, served |-> 0, present |-> TRUE]

\* lines 62-74: tokens_to_add = floor(elapsed * rate); when positive the bucket
\* is refilled up to burst and last_update moves to now
refill_uncapped(l, b) ==
    LET tokens_to_add == (l.now - b.last_update) * l.rate
    IN IF tokens_to_add > 0
       THEN [b EXCEPT !.tokens = b.tokens + tokens_to_add, !.last_update = l.now]
       ELSE b

refill(l, b) ==
    LET tokens_to_add == (l.now - b.last_update) * l.rate
    IN IF tokens_to_add > 0
       THEN [b EXCEPT !.tokens = Min(b.tokens + tokens_to_add, l.burst), !.last_update = l.now]
       ELSE b

\* RateLimiter::check.  The entry guard is held from or_insert_with to the end of
\* the call, so checks of one client do not interleave.  The retry-after
\* Duration 1/rate is kept as the fraction <<1, rate>>.
RlCheck(c) ==
    /\ LET l == maybe_cleanup(limiter)
           b == refill(l, or_insert(l, l.buckets[c]))
       IN limiter' =
            IF b.tokens > 0
            THEN [l EXCEPT !.buckets[c] =
                              [b EXCEPT !.tokens = @ - 1,
                                        !.served = IF @ >= 0 THEN @ + 1 ELSE @],
                           !.out = [client |-> c, allowed |-> TRUE, retry_after |-> <<0, 1>>,
                                    at |-> l.now]]
            ELSE [l EXCEPT !.buckets[c] = b,
                           !.out = [client |-> c, allowed |-> FALSE,
                                    retry_after |-> <<1, l.rate>>, at |-> l.now]]
    /\ UNCHANGED <<registryVars, barrierVars, shardVars, ckptVars>>

\* time passes on the monotonic clock
RlAdvance(t) ==
    /\ t > limiter.now
    /\ limiter' = [limiter EXCEPT !.now = t,
                                  !.buckets = [c \in Clients |-> [@[c] EXCEPT !.served = -1]]]
    /\ UNCHANGED <<registryVars, barrierVars, shardVars, ckptVars>>

(***************************************************************************)
(* Barriers (coordinator/src/service.rs, wait_barrier)                     *)
(***************************************************************************)
NewBarrier(expected) ==
    [expected |-> expected, arrived |-> 0, waiters |-> <<>>, drained |-> FALSE]

IdleCall ==
    [pc |-> "idle", bid |-> "epoch-sync", ws |-> 0, ref |-> 0, order |-> 0,
     taken |-> <<>>, chan |-> 0, released |-> FALSE, participants |-> 0,
     early |-> FALSE]

\* lines 623-624: read the request and the current world size
WB_Start(c) ==
    /\ call[c].pc = "idle"
    /\ \E b \in BarrierIds :
         call' = [call EXCEPT ![c].pc = "lookup", ![c].bid = b, ![c].ws = world_size]
    /\ UNCHANGED <<nonBarrier, barriers, barrierObjs>>

\* line 636: barriers.get(id)
WB_Lookup(c) ==
    /\ call[c].pc = "lookup"
    /\ call' = IF barriers[call[c].bid] # 0
               THEN [call EXCEPT ![c].pc = "arrive", ![c].ws = 0,
                                       ![c].ref = barriers[call[c].bid]]
               ELSE [call EXCEPT ![c].pc = "insert"]
    /\ UNCHANGED <<nonBarrier, barriers, barrierObjs>>

\* lines 639-653: entry(id).or_insert_with(new barrier, expected = world size read at 624)
WB_Insert(c) ==
    /\ call[c].pc = "insert"
    /\ IF barriers[call[c].bid] = 0
       THEN /\ barrierObjs' = Append(barrierObjs, NewBarrier(call[c].ws))
            /\ barriers' = [barriers EXCEPT ![call[c].bid] = Len(barrierObjs) + 1]
       ELSE UNCHANGED <<barriers, barrierObjs>>
    /\ call' = [call EXCEPT ![c].pc = "reget", ![c].ws = 0]
    /\ UNCHANGED nonBarrier

\* line 654: barriers.get(id).unwrap()
WB_Reget(c) ==
    /\ call[c].pc = "reget"
    /\ call' = IF barriers[call[c].bid] # 0
               THEN [call EXCEPT ![c].pc = "arrive", ![c].ref = barriers[call[c].bid]]
               ELSE [call EXCEPT ![c].pc = "panic"]
    /\ UNCHANGED <<nonBarrier, barriers, barrierObjs>>

WB_Arrive_strict(c) ==
    /\ call[c].pc = "arrive"
    /\ LET r == call[c].ref
           order == barrierObjs[r].arrived + 1
       IN /\ barrierObjs' = [barrierObjs EXCEPT ![r].arrived = order]
          /\ call' = [call EXCEPT ![c].order = order,
                                  ![c].pc = IF order > barrierObjs[r].expected
                                            THEN "drain" ELSE "push"]
    /\ UNCHANGED <<nonBarrier, barriers>>

\* lines 659-669: arrived.fetch_add(1) + 1, then the comparison with expected
WB_Arrive(c) ==
    /\ call[c].pc = "arrive"
    /\ LET r == call[c].ref
           order == barrierObjs[r].arrived + 1
       IN /\ barrierObjs' = [barrierObjs EXCEPT ![r].arrived = order]
          /\ call' = [call EXCEPT ![c].order = order,
                                  ![c].pc = IF order >= barrierObjs[r].expected
                                            THEN "drain" ELSE "push"]
    /\ UNCHANGED <<nonBarrier, barriers>>

\* line 671: waiters.lock().drain(..).collect()
WB_Drain(c) ==
    /\ call[c].pc = "drain"
    /\ LET r == call[c].ref
       IN /\ call' = [call EXCEPT ![c].pc = "send", ![c].taken = barrierObjs[r].waiters]
          /\ barrierObjs' = [barrierObjs EXCEPT ![r].waiters = <<>>, ![r].drained = TRUE]
    /\ UNCHANGED <<nonBarrier, barriers>>

InSeq(x, s) == \E i \in 1..Len(s) : s[i] = x

\* lines 672-674: waiter.send(arrival_order) for every drained handle; a send to a
\* receiver that has gone (timed out) fails and is ignored
WB_Send(c) ==
    /\ call[c].pc = "send"
    /\ call' = [d \in Callers |->
                 IF d = c THEN [call[c] EXCEPT !.pc = "remove", !.taken = <<>>]
                 ELSE IF InSeq(d, call[c].taken) /\ call[d].pc = "suspended"
                      THEN [call[d] EXCEPT !.chan = call[c].order]
                      ELSE call[d]]
    /\ UNCHANGED <<nonBarrier, barriers, barrierObjs>>

\* lines 677-690: barriers.remove(id), respond released
WB_Remove(c) ==
    /\ call[c].pc = "remove"
    /\ barriers' = [barriers EXCEPT ![call[c].bid] = 0]
    /\ call' = [call EXCEPT ![c].pc = "done", ![c].released = TRUE,
                            ![c].participants = call[c].order]
    /\ UNCHANGED <<nonBarrier, barrierObjs>>

\* lines 693-694: oneshot::channel(); waiters.lock().push(tx)
WB_Push(c) ==
    /\ call[c].pc = "push"
    /\ barrierObjs' = [barrierObjs EXCEPT ![call[c].ref].waiters = Append(@, c)]
    /\ call' = [call EXCEPT ![c].pc = "suspended"]
    /\ UNCHANGED <<nonBarrier, barriers>>

\* lines 697-703: the receiver resolves with the participant count
WB_Wake(c) ==
    /\ call[c].pc = "suspended"
    /\ call[c].chan # 0
    /\ call' = [call EXCEPT ![c].pc = "done", ![c].released = TRUE,
                            ![c].participants = call[c].chan]
    /\ UNCHANGED <<nonBarrier, barriers, barrierObjs>>

\* lines 697, 705: 300 s elapse with nothing received.  `early` records that the
\* timer fired while a wake-up could still come: the caller's handle was not
\* sitting in the waiter list of a barrier that had already been drained.
WB_Timeout(c) ==
    /\ call[c].pc = "suspended"
    /\ call[c].chan = 0
    /\ call' = [call EXCEPT ![c].pc = "timeout",
                            ![c].early = ~(/\ barrierObjs[call[c].ref].drained
                                           /\ InSeq(c, barrierObjs[call[c].ref].waiters))]
    /\ UNCHANGED <<nonBarrier, barriers, barrierObjs>>

WaitBarrier(c) ==
    \/ WB_Start(c)
    \/ WB_Lookup(c)
    \/ WB_Insert(c)
    \/ WB_Reget(c)
    \/ WB_Arrive(c)
    \/ WB_Drain(c)
    \/ WB_Send(c)
    \/ WB_Remove(c)
    \/ WB_Push(c)
    \/ WB_Wake(c)
    \/ WB_Timeout(c)

BarrierRegister_resize ==
    /\ \E w \in WorkerIds : RegistryRegister(w)
    /\ barrierObjs' = [r \in DOMAIN barrierObjs |->
                        [barrierObjs[r] EXCEPT !.expected = world_size + 1]]
    /\ UNCHANGED <<barriers, call, shardVars, ckptVars, limiter>>

BarrierRegister ==
    \E w \in WorkerIds : RegistryRegister(w) /\ UNCHANGED <<barrierVars, shardVars, ckptVars, limiter>>

BarrierDeregister ==
    \E w \in WorkerIds : RegistryDeregister(w) /\ UNCHANGED <<barrierVars, shardVars, ckptVars, limiter>>

(***************************************************************************)
(* Hash ring (data-shard/src/consistent_hash.rs)                           *)
(***************************************************************************)
HashSpace == 0..63

\* BTreeMap<u64, String> as its set of <<hash, node>> entries, one per hash.
ring_insert(ring, h, n) == {p \in ring : p[1] # h} \cup {<<h, n>>}
ring_remove(ring, h) == {p \in ring : p[1] # h}

\* FnvHasher over the virtual key "<node>:<i>" and over the shard key
\* "<dataset>:<k>": a fixed mixing function into the ring's key space.
VirtualHash(n, i) == (n * 13 + i * 29 + 7) % 64
KeyHash(d, k) == (d * 17 + k * 23 + 11) % 64

EmptyRing == {}

\* ConsistentHash::add_node: no-op when the node is listed, else insert V entries.
RECURSIVE InsertVirtual(_, _, _)
InsertVirtual(ring, n, i) ==
    IF i >= VirtualNodes THEN ring
    ELSE InsertVirtual(ring_insert(ring, VirtualHash(n, i), n), n, i + 1)

add_node(s, n) ==
    IF InSeq(n, s.nodes) THEN s
    ELSE [s EXCEPT !.ring = InsertVirtual(s.ring, n, 0), !.nodes = Append(s.nodes, n)]

\* ConsistentHash::remove_node: remove the V hashes of the node, drop it from the list.
RECURSIVE RemoveVirtual(_, _, _)
RemoveVirtual(ring, n, i) ==
    IF i >= VirtualNodes THEN ring
    ELSE RemoveVirtual(ring_remove(ring, VirtualHash(n, i)), n, i + 1)

remove_node_tail(s, n) ==
    [s EXCEPT !.ring = RemoveVirtual(s.ring, n, 1),
              !.nodes = SelectSeq(s.nodes, LAMBDA x : x # n)]

remove_node(s, n) ==
    [s EXCEPT !.ring = RemoveVirtual(s.ring, n, 0),
              !.nodes = SelectSeq(s.nodes, LAMBDA x : x # n)]

\* ConsistentHash::get_node: first entry at or after the key's hash, else the lowest.
get_node(ring, h) ==
    LET after == {p \in ring : p[1] >= h}
        First(S) == CHOOSE p \in S : \A q \in S : p[1] <= q[1]
    IN IF ring = {} THEN 0
       ELSE IF after # {} THEN First(after)[2] ELSE First(ring)[2]

\* ConsistentHash::get_shards_for_node
get_shards_for_node(ring, n, d, total_shards) ==
    SelectSeq([k \in 1..total_shards |-> k - 1],
              LAMBDA k : get_node(ring, KeyHash(d, k)) = n)

(***************************************************************************)
(* Epoch shuffler (data-shard/src/epoch.rs)                                *)
(***************************************************************************)
\* EpochCoordinator::compute_epoch_seed: a stable hash of (base seed, dataset, epoch).
compute_epoch_seed(base_seed, d, e) == (base_seed * 7 + d * 3 + e * 5 + 1) % 16

\* The generator seeded with the epoch seed: its successive outputs.
NextRand(x) == (x * 5 + 3) % 16

\* SliceRandom::shuffle: Fisher-Yates from the last position down, each swap index
\* drawn from the generator.
RECURSIVE ShuffleFrom(_, _, _)
ShuffleFrom(list, i, x) ==
    IF i <= 1 THEN list
    ELSE LET j == (x % i) + 1
             swapped == [list EXCEPT ![i] = list[j], ![j] = list[i]]
         IN ShuffleFrom(swapped, i - 1, NextRand(x))

ShuffleSeeded(total_shards, seed) ==
    ShuffleFrom([k \in 1..total_shards |-> k - 1], total_shards, NextRand(seed))

\* EpochCoordinator::get_shuffled_shards: the cached order when one is cached for
\* (dataset, epoch), else a fresh shuffle that is then cached.
shuffled_result(s, d, e, total_shards) ==
    IF s.shuffle_cache[<<d, e>>] # NoCache THEN s.shuffle_cache[<<d, e>>]
    ELSE ShuffleSeeded(total_shards, compute_epoch_seed(s.base_seed, d, e))

get_shuffled_shards(s, d, e, total_shards) ==
    [s EXCEPT !.shuffle_cache[<<d, e>>] = shuffled_result(s, d, e, total_shards)]

\* EpochCoordinator::get_worker_shards: the round-robin cut of the shuffled order.
get_worker_shards_result(s, d, e, total_shards, worker_rank, total_workers) ==
    IF total_workers = 0 THEN <<>>
    ELSE LET shuffled == shuffled_result(s, d, e, total_shards)
             pick == SelectSeq([i \in 1..Len(shuffled) |-> i],
                               LAMBDA i : (i - 1) % total_workers = worker_rank)
         IN [i \in 1..Len(pick) |-> shuffled[pick[i]]]

get_worker_shards(s, d, e, total_shards, worker_rank, total_workers) ==
    IF total_workers = 0 THEN s ELSE get_shuffled_shards(s, d, e, total_shards)

\* EpochCoordinator::clear_cache
clear_cache(s, d) ==
    [s EXCEPT !.shuffle_cache =
        [k \in DatasetIds \X Epochs |-> IF k[1] = d THEN NoCache ELSE @[k]]]

(***************************************************************************)
(* Shard manager (data-shard/src/shard_manager.rs)                         *)
(***************************************************************************)
\* ShardManager::new -> with_components(ConsistentHash::new(), EpochCoordinator::new()):
\* everything empty, the shuffler's base seed drawn at random.
NewShardManager(seed) ==
    [datasets      |-> [d \in DatasetIds |-> NoDataset],
     worker_ranks  |-> [w \in WorkerIds |-> NoRank],
     active_workers |-> {},
     ring          |-> EmptyRing,
     nodes         |-> <<>>,
     epochs        |-> [d \in DatasetIds |-> 0],
     shuffle_cache |-> [k \in DatasetIds \X Epochs |-> NoCache],
     base_seed     |-> seed]

RankedWorkers(s) == {w \in WorkerIds : s.worker_ranks[w] # NoRank}

DivCeil(a, b) == (a + b - 1) \div b

\* register_dataset_params + register_dataset: shard count, epoch reset to 0, overwrite.
register_dataset_params(s, d, total_samples, shard_size, shuffle, seed) ==
    [s EXCEPT !.epochs[d] = 0,
              !.datasets[d] = [total_samples |-> total_samples,
                               total_shards  |-> DivCeil(total_samples, shard_size),
                               shard_size    |-> shard_size,
                               shuffle       |-> shuffle,
                               seed          |-> seed]]

\* ShardManager::register_worker
register_worker(s, w) ==
    add_node([s EXCEPT !.worker_ranks[w] = Cardinality(RankedWorkers(s)),
                       !.active_workers = @ \cup {w}], w)

\* ShardManager::reassign_ranks: sort the ids, renumber from 0.
reassign_ranks(s) ==
    [s EXCEPT !.worker_ranks =
        [w \in WorkerIds |->
            IF s.worker_ranks[w] = NoRank THEN NoRank
            ELSE Cardinality({v \in RankedWorkers(s) : v < w})]]

\* ShardManager::remove_worker
remove_worker(s, w) ==
    reassign_ranks(remove_node([s EXCEPT !.active_workers = @ \ {w},
                                         !.worker_ranks[w] = NoRank], w))

\* ShardManager::get_shard_for_worker: the shard ids returned (<<-1>> stands for None)
NoShards == <<-1>>

shard_ids_for_worker(s, d, w, e) ==
    IF s.datasets[d] = NoDataset \/ s.worker_ranks[w] = NoRank
       \/ Cardinality(s.active_workers) = 0
    THEN NoShards
    ELSE IF s.datasets[d].shuffle
         THEN get_worker_shards_result(s, d, e, s.datasets[d].total_shards,
                                       s.worker_ranks[w], Cardinality(s.active_workers))
         ELSE get_shards_for_node(s.ring, w, d, s.datasets[d].total_shards)

\* ... and the sample range attached to each shard id (lines 193-210)
assignment(s, d, k, e) ==
    LET ds == s.datasets[d]
        start == k * ds.shard_size
        end == IF start + ds.shard_size < ds.total_samples
               THEN start + ds.shard_size ELSE ds.total_samples
    IN [dataset_id |-> d, shard_id |-> k, total_shards |-> ds.total_shards,
        start_index |-> start, end_index |-> end, epoch |-> e]

\* ... and its effect on the shuffler's cache
get_shard_for_worker(s, d, w, e) ==
    IF shard_ids_for_worker(s, d, w, e) = NoShards \/ ~s.datasets[d].shuffle THEN s
    ELSE get_worker_shards(s, d, e, s.datasets[d].total_shards,
                           s.worker_ranks[w], Cardinality(s.active_workers))

\* ShardManager::advance_epoch
advance_epoch(s, d) ==
    IF s.datasets[d] = NoDataset THEN s ELSE [s EXCEPT !.epochs[d] = @ + 1]

\* ShardManager::rebalance_shards: get_shard_for_worker for every registered dataset
\* and every active worker at the dataset's current epoch; what stays behind is
\* the shuffler's cache.
RECURSIVE RebalanceWorkers(_, _, _)
RebalanceWorkers(s, d, w) ==
    IF w > NWorkerIds THEN s
    ELSE IF w \in s.active_workers
         THEN RebalanceWorkers(get_shard_for_worker(s, d, w, s.epochs[d]), d, w + 1)
         ELSE RebalanceWorkers(s, d, w + 1)

RECURSIVE RebalanceDatasets(_, _)
RebalanceDatasets(s, d) ==
    IF d \notin DatasetIds THEN s
    ELSE IF s.datasets[d] # NoDataset
         THEN RebalanceDatasets(RebalanceWorkers(s, d, 1), d + 1)
         ELSE RebalanceDatasets(s, d + 1)

rebalance_shards(s) == RebalanceDatasets(s, 1)

(***************************************************************************)
(* Calls on one shard manager (coordinator 1)                              *)
(***************************************************************************)
MaxShards == 3
ShardCounts == 0..MaxShards

SMRegisterWorker(w) ==
    /\ sm' = [sm EXCEPT ![1] = register_worker(sm[1], w)]
    /\ lastOp' = [op |-> "register_worker", w |-> w]
    /\ dupRegistered' = (dupRegistered \/ sm[1].worker_ranks[w] # NoRank)
    /\ UNCHANGED <<registryVars, barrierVars, ckptVars, limiter>>

SMRemoveWorker(w) ==
    /\ sm' = [sm EXCEPT ![1] = remove_worker(sm[1], w)]
    /\ lastOp' = [op |-> "remove_worker", w |-> w, member |-> InSeq(w, sm[1].nodes)]
    /\ UNCHANGED <<registryVars, barrierVars, ckptVars, limiter, dupRegistered>>

SMRegisterDataset(d, total_samples, shard_size, shuffle, seed) ==
    /\ sm' = [sm EXCEPT ![1] = register_dataset_params(sm[1], d, total_samples,
                                                       shard_size, shuffle, seed)]
    /\ lastOp' = [op |-> "register_dataset", w |-> 0]
    /\ UNCHANGED <<registryVars, barrierVars, ckptVars, limiter, dupRegistered>>

SMGetShardForWorker(d, w, e) ==
    /\ sm' = [sm EXCEPT ![1] = get_shard_for_worker(sm[1], d, w, e)]
    /\ lastOp' = [op |-> "get_shard_for_worker", w |-> w]
    /\ UNCHANGED <<registryVars, barrierVars, ckptVars, limiter, dupRegistered>>

SMAdvanceEpoch(d) ==
    /\ sm[1].epochs[d] < MaxEpoch
    /\ sm' = [sm EXCEPT ![1] = advance_epoch(sm[1], d)]
    /\ lastOp' = [op |-> "advance_epoch", w |-> 0]
    /\ UNCHANGED <<registryVars, barrierVars, ckptVars, limiter, dupRegistered>>

NextShard ==
    \/ \E w \in WorkerIds : SMRegisterWorker(w)
    \/ \E w \in WorkerIds : SMRemoveWorker(w)
    \/ \E d \in DatasetIds, ts \in TotalSamples, z \in ShardSizes,
          sh \in BOOLEAN, seed \in DatasetSeeds :
            SMRegisterDataset(d, ts, z, sh, seed)
    \/ \E d \in DatasetIds, w \in WorkerIds, e \in Epochs : SMGetShardForWorker(d, w, e)
    \/ \E d \in DatasetIds : SMAdvanceEpoch(d)

\* CheckpointManager::new: empty index and pending map, empty channels, the
\* listener waiting for an event; keep_count comes from the configuration.
InitCkptWith(keep, buffer_size) ==
    /\ keep_count = keep
    /\ checkpoints = [s \in Steps |-> 0]
    /\ pending = [i \in CkptIds |-> NoPending]
    /\ write_chan = <<>>
    /\ event_chan = <<>>
    /\ listener = [pc |-> "recv", id |-> 0]
    /\ ext = [c \in ExtCallers |-> IdleExt]
    /\ deleted = {}
    /\ inserted = {}
    /\ next_id = 1
    /\ wp = [c \in WaitCallers |-> IdleWait]
    /\ ckptOp = NoCkptOp
    /\ files = [f \in Paths |-> "absent"]
    /\ writer = IdleWriter
    /\ write_tx = AsyncCheckpointWriter_new(buffer_size)
    /\ save = [c \in SaveCallers |-> IdleSave]
    /\ locks = FreeLocks
    /\ thr = [t \in Threads |-> IdleThread]

\* CheckpointManager::new with the default write_buffer_size
InitCkpt(keep) == InitCkptWith(keep, DefaultWriteBufferSize)

Init ==
    /\ InitCkpt(MaxKeepCount)
    /\ InitRegistry(MaxWorkers)
    /\ barriers = [b \in BarrierIds |-> 0]
    /\ barrierObjs = <<>>
    /\ call = [c \in Callers |-> IdleCall]
    /\ sm = [k \in Coords |-> NewShardManager(1)]
    /\ lastOp = NoOp
    /\ dupRegistered = FALSE
    /\ limiter = RateLimiter_new(MaxRate, MaxBurst)

NextBarrier ==
    \/ BarrierRegister
    \/ BarrierDeregister
    \/ \E c \in Callers : WaitBarrier(c)

SpecBarrier == Init /\ [][NextBarrier]_vars

\* the registry under concurrent register calls, heartbeats and the sweep;
\* max_workers comes from the configuration
InitRegistrySpec ==
    /\ InitCkpt(MaxKeepCount)
    /\ \E max \in 1..MaxWorkers : InitRegistry(max)
    /\ barriers = [b \in BarrierIds |-> 0]
    /\ barrierObjs = <<>>
    /\ call = [c \in Callers |-> IdleCall]
    /\ sm = [k \in Coords |-> NewShardManager(1)]
    /\ lastOp = NoOp
    /\ dupRegistered = FALSE
    /\ limiter = RateLimiter_new(MaxRate, MaxBurst)

NextRegistry ==
    \/ \E c \in RegCallers, w \in WorkerIds : RegStart(c, w)
    \/ \E c \in RegCallers : RegCheckCapacity(c)
    \/ \E c \in RegCallers : RegCheckDuplicate(c)
    \/ \E c \in RegCallers : RegFetchAdd(c)
    \/ \E c \in RegCallers : RegInsert(c)
    \/ \E w \in WorkerIds : RegDeregister(w)
    \/ \E w \in WorkerIds, state \in HeartbeatStates : Heartbeat(w, state)
    \/ \E w \in WorkerIds : CheckDeadWorkers(w)

SpecRegistry == InitRegistrySpec /\ [][NextRegistry]_vars

\* the rate limiter; rate and burst come from its construction
InitLimiter ==
    /\ InitCkpt(MaxKeepCount)
    /\ InitRegistry(MaxWorkers)
    /\ barriers = [b \in BarrierIds |-> 0]
    /\ barrierObjs = <<>>
    /\ call = [c \in Callers |-> IdleCall]
    /\ sm = [k \in Coords |-> NewShardManager(1)]
    /\ lastOp = NoOp
    /\ dupRegistered = FALSE
    /\ \E rate \in Rates, burst \in Bursts : limiter = RateLimiter_new(rate, burst)

NextLimiter ==
    \/ \E c \in Clients : RlCheck(c)
    \/ \E t \in Instants : RlAdvance(t)

SpecLimiter == InitLimiter /\ [][NextLimiter]_vars

\* heartbeats, unary and streamed, on a changing membership
NextHeartbeat ==
    \/ \E w \in WorkerIds : RegRegister(w)
    \/ \E w \in WorkerIds : RegDeregister(w)
    \/ \E w \in WorkerIds, req \in HbRequests : RpcHeartbeat(w, req)
    \/ \E w \in WorkerIds, req \in HbRequests : StreamHeartbeat(w, req)
    \/ ClockAdvance

SpecHeartbeat == Init /\ [][NextHeartbeat]_vars

\* the liveness sweep against heartbeats and the clock
SweepStates == {"Training"}

NextSweep ==
    \/ \E w \in WorkerIds : RegRegister(w)
    \/ \E w \in WorkerIds : RegDeregister(w)
    \/ \E w \in WorkerIds, state \in SweepStates : Heartbeat(w, state)
    \/ ClockAdvance
    \/ ClockStepBack
    \/ SweepStart
    \/ \E w \in WorkerIds : SweepVisit(w)
    \/ SweepReturn

SpecSweep == Init /\ [][NextSweep]_vars

\* ShardManager::new draws the shuffler's base seed at random.
InitShard ==
    /\ InitCkpt(MaxKeepCount)
    /\ InitRegistry(MaxWorkers)
    /\ barriers = [b \in BarrierIds |-> 0]
    /\ barrierObjs = <<>>
    /\ call = [c \in Callers |-> IdleCall]
    /\ \E seed \in BaseSeeds :
         sm = [k \in Coords |-> IF k = 1 THEN NewShardManager(seed) ELSE NewShardManager(1)]
    /\ lastOp = NoOp
    /\ dupRegistered = FALSE
    /\ limiter = RateLimiter_new(MaxRate, MaxBurst)

SpecShard == InitShard /\ [][NextShard]_vars

\* membership changes alone: the hash ring under joins and departures
NextRing ==
    \/ \E w \in WorkerIds : SMRegisterWorker(w)
    \/ \E w \in WorkerIds : SMRemoveWorker(w)

SpecRing == InitShard /\ [][NextRing]_vars

(***************************************************************************)
(* Calls made directly on the shuffler of coordinator 1                    *)
(***************************************************************************)
EpGetShuffledShards(d, e, total_shards) ==
    /\ sm' = [sm EXCEPT ![1] = get_shuffled_shards(sm[1], d, e, total_shards)]
    /\ lastOp' = [op |-> "get_shuffled_shards", w |-> 0, c |-> total_shards,
                  result |-> shuffled_result(sm[1], d, e, total_shards)]
    /\ UNCHANGED <<registryVars, barrierVars, ckptVars, limiter, dupRegistered>>

EpGetWorkerShards(d, e, total_shards, r, W) ==
    /\ sm' = [sm EXCEPT ![1] = get_worker_shards(sm[1], d, e, total_shards, r, W)]
    /\ lastOp' = [op |-> "get_worker_shards", w |-> 0, c |-> total_shards,
                  r |-> r, tw |-> W,
                  result |-> get_worker_shards_result(sm[1], d, e, total_shards, r, W)]
    /\ UNCHANGED <<registryVars, barrierVars, ckptVars, limiter, dupRegistered>>

EpClearCache(d) ==
    /\ sm' = [sm EXCEPT ![1] = clear_cache(sm[1], d)]
    /\ lastOp' = [op |-> "clear_cache", w |-> 0]
    /\ UNCHANGED <<registryVars, barrierVars, ckptVars, limiter, dupRegistered>>

NextEpoch ==
    \/ \E d \in DatasetIds, e \in Epochs, c \in ShardCounts : EpGetShuffledShards(d, e, c)
    \/ \E d \in DatasetIds, e \in Epochs, c \in ShardCounts, W \in 0..NWorkerIds :
         \E r \in 0..NWorkerIds : EpGetWorkerShards(d, e, c, r, W)
    \/ \E d \in DatasetIds : EpClearCache(d)

SpecEpoch == InitShard /\ [][NextEpoch]_vars

(***************************************************************************)
(* Coordinator RPCs on membership and datasets (coordinator/src/service.rs)*)
(***************************************************************************)
\* InputValidator (coordinator/src/middleware.rs): an id is a sequence of
\* characters; id_pattern is ^[a-zA-Z0-9_\-\.]+$
MaxWorkerIdLen == 128
IdPatternChars ==
    {"a", "b", "c", "d", "e", "f", "g", "h", "i", "j", "k", "l", "m", "n", "o", "p", "q",
     "r", "s", "t", "u", "v", "w", "x", "y", "z",
     "A", "B", "C", "D", "E", "F", "G", "H", "I", "J", "K", "L", "M", "N", "O", "P", "Q",
     "R", "S", "T", "U", "V", "W", "X", "Y", "Z",
     "0", "1", "2", "3", "4", "5", "6", "7", "8", "9", "_", "-", "."}

id_pattern_is_match(id) ==
    /\ Len(id) >= 1
    /\ \A i \in 1..Len(id) : id[i] \in IdPatternChars

validate_worker_id(id) ==
    IF Len(id) = 0 THEN "InvalidArgument"
    ELSE IF Len(id) > MaxWorkerIdLen THEN "InvalidArgument"
    ELSE IF ~id_pattern_is_match(id) THEN "InvalidArgument"
    ELSE "Ok"

validate_port(port) ==
    IF port < 1 \/ port > 65535 THEN "InvalidArgument" ELSE "Ok"

\* the worker_id strings and ports a RegisterWorker request is sent with
RequestIds ==
    {<<>>, <<"w", "-", "1", ".", "a", "_", "Z">>, <<"w", "/", "1">>,
     [i \in 1..MaxWorkerIdLen |-> "a"], [i \in 1..(MaxWorkerIdLen + 1) |-> "a"]}
RequestPorts == {0, 1, 65535, 65536}

\* register_worker: the request goes to the registry as it comes (any registry
\* error is answered with already_exists); on success the shard manager too.
\* w is the registry key that the string id stands for.
RpcRegisterWorker(w, id, port) ==
    /\ IF RegistryCanRegister(w)
       THEN /\ RegistryRegister(w)
            /\ sm' = [sm EXCEPT ![1] = register_worker(sm[1], w)]
       ELSE UNCHANGED <<registryVars, sm>>
    /\ lastOp' = [op |-> "RegisterWorker", w |-> w, ok |-> RegistryCanRegister(w),
                  status |-> IF RegistryCanRegister(w) THEN "Ok" ELSE "AlreadyExists",
                  valid |-> validate_worker_id(id) = "Ok" /\ validate_port(port) = "Ok"]
    /\ UNCHANGED <<barrierVars, ckptVars, limiter, dupRegistered>>

\* deregister_worker: registry, shard manager, then rebalance.
RpcDeregisterWorker(w) ==
    /\ IF workers[w] # NoRank
       THEN /\ RegistryDeregister(w)
            /\ sm' = [sm EXCEPT ![1] = rebalance_shards(remove_worker(sm[1], w))]
       ELSE UNCHANGED <<registryVars, sm>>
    /\ lastOp' = [op |-> "DeregisterWorker", w |-> w, ok |-> workers[w] # NoRank]
    /\ UNCHANGED <<barrierVars, ckptVars, limiter, dupRegistered>>

\* register_dataset
RpcRegisterDataset(d, total_samples, shard_size, shuffle, seed) ==
    /\ sm' = [sm EXCEPT ![1] = register_dataset_params(sm[1], d, total_samples,
                                                       shard_size, shuffle, seed)]
    /\ lastOp' = [op |-> "RegisterDataset", w |-> 0, ok |-> TRUE]
    /\ UNCHANGED <<registryVars, barrierVars, ckptVars, limiter, dupRegistered>>

\* get_data_shard: not_found for an unknown dataset, internal when the manager
\* returns None, not_found for an empty list, else the first assignment.
RpcGetDataShard(d, w, e) ==
    /\ sm' = [sm EXCEPT ![1] = IF sm[1].datasets[d] = NoDataset THEN @
                               ELSE get_shard_for_worker(@, d, w, e)]
    /\ lastOp' = [op |-> "GetDataShard", w |-> w, d |-> d,
                  ok |-> /\ sm[1].datasets[d] # NoDataset
                         /\ shard_ids_for_worker(sm[1], d, w, e) # NoShards
                         /\ shard_ids_for_worker(sm[1], d, w, e) # <<>>,
                  status |-> IF sm[1].datasets[d] = NoDataset THEN "NotFound"
                             ELSE IF shard_ids_for_worker(sm[1], d, w, e) = NoShards
                                  THEN "Internal"
                             ELSE IF shard_ids_for_worker(sm[1], d, w, e) = <<>>
                                  THEN "NotFound"
                             ELSE "Ok"]
    /\ UNCHANGED <<registryVars, barrierVars, ckptVars, limiter, dupRegistered>>

(***************************************************************************)
(* Membership calls as they run on concurrent threads: every DashMap and   *)
(* ring operation is one step, and other threads run between two of them.  *)
(***************************************************************************)
MemberCall(op, pc, w) == [op |-> op, pc |-> pc, w |-> w, rank |-> NoRank, keys |-> {}]

\* ShardManager::register_worker is entered
SmRegStart(t, w) ==
    /\ thr[t] = IdleThread
    /\ thr' = [thr EXCEPT ![t] = MemberCall("register_worker", "len", w)]
    /\ UNCHANGED <<registryVars, barrierVars, shardVars, ckptCore, locks, limiter>>

\* line 117: worker_ranks.len()
SmRegLen(t) ==
    /\ thr[t].pc = "len"
    /\ thr' = [thr EXCEPT ![t].rank = Cardinality(RankedWorkers(sm[1])),
                          ![t].pc = "insert_rank"]
    /\ UNCHANGED <<registryVars, barrierVars, shardVars, ckptCore, locks, limiter>>

\* line 118: worker_ranks.insert(worker_id, rank)
SmRegInsertRank(t) ==
    /\ thr[t].pc = "insert_rank"
    /\ sm' = [sm EXCEPT ![1].worker_ranks[thr[t].w] = thr[t].rank]
    /\ thr' = [thr EXCEPT ![t].pc = "insert_active"]
    /\ UNCHANGED <<registryVars, barrierVars, lastOp, dupRegistered, ckptCore, locks, limiter>>

\* line 127: active_workers.insert(worker_id, state)
SmRegInsertActive(t) ==
    /\ thr[t].pc = "insert_active"
    /\ sm' = [sm EXCEPT ![1].active_workers = @ \cup {thr[t].w}]
    /\ thr' = [thr EXCEPT ![t].pc = "add_node"]
    /\ UNCHANGED <<registryVars, barrierVars, lastOp, dupRegistered, ckptCore, locks, limiter>>

\* line 128: hash_ring.add_node(worker_id); the call returns
SmRegAddNode(t) ==
    /\ thr[t].pc = "add_node"
    /\ sm' = [sm EXCEPT ![1] = add_node(sm[1], thr[t].w)]
    /\ thr' = [thr EXCEPT ![t] = IdleThread]
    /\ lastOp' = [op |-> thr[t].op, w |-> thr[t].w, ok |-> TRUE]
    /\ UNCHANGED <<registryVars, barrierVars, dupRegistered, ckptCore, locks, limiter>>

\* ShardManager::remove_worker, called by deregister_worker
\* line 135: active_workers.remove(worker_id)
SmRmActive(t) ==
    /\ thr[t].pc = "rm_active"
    /\ sm' = [sm EXCEPT ![1].active_workers = @ \ {thr[t].w}]
    /\ thr' = [thr EXCEPT ![t].pc = "rm_rank"]
    /\ UNCHANGED <<registryVars, barrierVars, lastOp, dupRegistered, ckptCore, locks, limiter>>

\* line 136: worker_ranks.remove(worker_id)
SmRmRank(t) ==
    /\ thr[t].pc = "rm_rank"
    /\ sm' = [sm EXCEPT ![1].worker_ranks[thr[t].w] = NoRank]
    /\ thr' = [thr EXCEPT ![t].pc = "rm_node"]
    /\ UNCHANGED <<registryVars, barrierVars, lastOp, dupRegistered, ckptCore, locks, limiter>>

\* line 137: hash_ring.remove_node(worker_id)
SmRmNode(t) ==
    /\ thr[t].pc = "rm_node"
    /\ sm' = [sm EXCEPT ![1] = remove_node(sm[1], thr[t].w)]
    /\ thr' = [thr EXCEPT ![t].pc = "collect"]
    /\ UNCHANGED <<registryVars, barrierVars, lastOp, dupRegistered, ckptCore, locks, limiter>>

\* reassign_ranks, lines 147-148: the keys of worker_ranks are collected and sorted
SmReassignCollect(t) ==
    /\ thr[t].pc = "collect"
    /\ thr' = [thr EXCEPT ![t].keys = RankedWorkers(sm[1]), ![t].pc = "renumber"]
    /\ UNCHANGED <<registryVars, barrierVars, shardVars, ckptCore, locks, limiter>>

\* reassign_ranks, lines 150-152: every collected key is inserted with its
\* position in the sorted list (the inserts taken together); remove_worker
\* returns to deregister_worker.
SmReassignInsert(t) ==
    /\ thr[t].pc = "renumber"
    /\ sm' = [sm EXCEPT ![1].worker_ranks =
                 [w \in WorkerIds |->
                    IF w \in thr[t].keys
                    THEN Cardinality({v \in thr[t].keys : v < w})
                    ELSE sm[1].worker_ranks[w]]]
    /\ thr' = [thr EXCEPT ![t].pc = "rebalance"]
    /\ UNCHANGED <<registryVars, barrierVars, lastOp, dupRegistered, ckptCore, locks, limiter>>

\* deregister_worker, line 396: shard_manager.rebalance_shards(); the response
RpcDeregRebalance(t) ==
    /\ thr[t].pc = "rebalance"
    /\ sm' = [sm EXCEPT ![1] = rebalance_shards(sm[1])]
    /\ thr' = [thr EXCEPT ![t] = IdleThread]
    /\ lastOp' = [op |-> thr[t].op, w |-> thr[t].w, ok |-> TRUE]
    /\ UNCHANGED <<registryVars, barrierVars, dupRegistered, ckptCore, locks, limiter>>

\* register_worker (RPC), lines 316-319: workers.register(core_info); an error
\* is answered at once, otherwise the call goes on to the shard manager.
RpcRegRegistry(t, w) ==
    /\ thr[t] = IdleThread
    /\ IF RegistryCanRegister(w)
       THEN /\ RegistryRegister(w)
            /\ thr' = [thr EXCEPT ![t] = MemberCall("RegisterWorker", "len", w)]
            /\ UNCHANGED lastOp
       ELSE /\ lastOp' = [op |-> "RegisterWorker", w |-> w, ok |-> FALSE]
            /\ UNCHANGED <<registryVars, thr>>
    /\ UNCHANGED <<barrierVars, sm, dupRegistered, ckptCore, locks, limiter>>

\* deregister_worker (RPC), lines 388-391: workers.deregister(id); an error is
\* answered at once, otherwise the call goes on to the shard manager.
RpcDeregRegistry(t, w) ==
    /\ thr[t] = IdleThread
    /\ IF workers[w] # NoRank
       THEN /\ RegistryDeregister(w)
            /\ thr' = [thr EXCEPT ![t] = MemberCall("DeregisterWorker", "rm_active", w)]
            /\ UNCHANGED lastOp
       ELSE /\ lastOp' = [op |-> "DeregisterWorker", w |-> w, ok |-> FALSE]
            /\ UNCHANGED <<registryVars, thr>>
    /\ UNCHANGED <<barrierVars, sm, dupRegistered, ckptCore, locks, limiter>>

\* the worker ids with a register_worker call in flight
Registering == {thr[t].w : t \in {u \in Threads : thr[u].op = "register_worker"}}

\* concurrent ShardManager::register_worker calls, each id registered once
NextShardRace ==
    \/ \E t \in Threads, w \in WorkerIds :
          /\ sm[1].worker_ranks[w] = NoRank
          /\ w \notin Registering
          /\ SmRegStart(t, w)
    \/ \E t \in Threads : SmRegLen(t)
    \/ \E t \in Threads : SmRegInsertRank(t)
    \/ \E t \in Threads : SmRegInsertActive(t)
    \/ \E t \in Threads : SmRegAddNode(t)

SpecShardRace == Init /\ [][NextShardRace]_vars

\* concurrent RegisterWorker and DeregisterWorker calls
NRpcThreads == 2
RpcThreads == 1..NRpcThreads

NextRpcRace ==
    \/ \E t \in RpcThreads, w \in WorkerIds : RpcRegRegistry(t, w)
    \/ \E t \in RpcThreads, w \in WorkerIds : RpcDeregRegistry(t, w)
    \/ \E t \in RpcThreads : SmRegLen(t)
    \/ \E t \in RpcThreads : SmRegInsertRank(t)
    \/ \E t \in RpcThreads : SmRegInsertActive(t)
    \/ \E t \in RpcThreads : SmRegAddNode(t)
    \/ \E t \in RpcThreads : SmRmActive(t)
    \/ \E t \in RpcThreads : SmRmRank(t)
    \/ \E t \in RpcThreads : SmRmNode(t)
    \/ \E t \in RpcThreads : SmReassignCollect(t)
    \/ \E t \in RpcThreads : SmReassignInsert(t)
    \/ \E t \in RpcThreads : RpcDeregRebalance(t)

SpecRpcRace == Init /\ [][NextRpcRace]_vars

NextMembership ==
    \/ \E w \in WorkerIds, id \in RequestIds, port \in RequestPorts :
          RpcRegisterWorker(w, id, port)
    \/ \E w \in WorkerIds : RpcDeregisterWorker(w)
    \/ \E d \in DatasetIds, ts \in TotalSamples, z \in ShardSizes,
          sh \in BOOLEAN, seed \in DatasetSeeds :
            RpcRegisterDataset(d, ts, z, sh, seed)
    \/ \E d \in DatasetIds, w \in WorkerIds, e \in Epochs : RpcGetDataShard(d, w, e)

SpecMembership == InitShard /\ [][NextMembership]_vars

(***************************************************************************)
(* Two coordinators, created independently, driven by the same calls       *)
(***************************************************************************)
TwinRegisterWorker(w) ==
    /\ sm[1].worker_ranks[w] = NoRank
    /\ sm' = [k \in Coords |-> register_worker(sm[k], w)]
    /\ lastOp' = [op |-> "register_worker", w |-> w]
    /\ UNCHANGED <<registryVars, barrierVars, ckptVars, limiter, dupRegistered>>

TwinRemoveWorker(w) ==
    /\ sm' = [k \in Coords |-> remove_worker(sm[k], w)]
    /\ lastOp' = [op |-> "remove_worker", w |-> w]
    /\ UNCHANGED <<registryVars, barrierVars, ckptVars, limiter, dupRegistered>>

TwinRegisterDataset(d, total_samples, shard_size, shuffle, seed) ==
    /\ sm[1].datasets[d] = NoDataset
    /\ sm' = [k \in Coords |->
                register_dataset_params(sm[k], d, total_samples, shard_size, shuffle, seed)]
    /\ lastOp' = [op |-> "register_dataset", w |-> 0]
    /\ UNCHANGED <<registryVars, barrierVars, ckptVars, limiter, dupRegistered>>

TwinGetShardForWorker(d, w, e) ==
    /\ sm' = [k \in Coords |-> get_shard_for_worker(sm[k], d, w, e)]
    /\ lastOp' = [op |-> "get_shard_for_worker", w |-> w]
    /\ UNCHANGED <<registryVars, barrierVars, ckptVars, limiter, dupRegistered>>

TwinAdvanceEpoch(d) ==
    /\ sm[1].epochs[d] < MaxEpoch
    /\ sm' = [k \in Coords |-> advance_epoch(sm[k], d)]
    /\ lastOp' = [op |-> "advance_epoch", w |-> 0]
    /\ UNCHANGED <<registryVars, barrierVars, ckptVars, limiter, dupRegistered>>

NextTwin ==
    \/ \E w \in WorkerIds : TwinRegisterWorker(w)
    \/ \E w \in WorkerIds : TwinRemoveWorker(w)
    \/ \E d \in DatasetIds, ts \in TotalSamples, z \in ShardSizes,
          sh \in BOOLEAN, seed \in DatasetSeeds :
            TwinRegisterDataset(d, ts, z, sh, seed)
    \/ \E d \in DatasetIds, w \in WorkerIds, e \in Epochs : TwinGetShardForWorker(d, w, e)
    \/ \E d \in DatasetIds : TwinAdvanceEpoch(d)

\* each ShardManager::new draws its own base seed
InitTwin ==
    /\ InitCkpt(MaxKeepCount)
    /\ InitRegistry(MaxWorkers)
    /\ barriers = [b \in BarrierIds |-> 0]
    /\ barrierObjs = <<>>
    /\ call = [c \in Callers |-> IdleCall]
    /\ \E s1 \in BaseSeeds, s2 \in BaseSeeds :
         sm = [k \in Coords |-> IF k = 1 THEN NewShardManager(s1) ELSE NewShardManager(s2)]
    /\ lastOp = NoOp
    /\ dupRegistered = FALSE
    /\ limiter = RateLimiter_new(MaxRate, MaxBurst)

SpecTwin == InitTwin /\ [][NextTwin]_vars

(***************************************************************************)
(* Checkpoint manager (checkpoint/src/manager.rs, writer.rs)               *)
(***************************************************************************)
\* the path a checkpoint's file is stored under: one per checkpoint id
PathOf(id) == id

IndexSteps(idx) == {s \in Steps : idx[s] # 0}

\* BTreeMap::values().last(): the highest step present
last_key(idx) == CHOOSE s \in IndexSteps(idx) : \A t \in IndexSteps(idx) : s >= t

\* a retention loop that evicts from the wrong end of the map
first_key_newest(idx) == last_key(idx)

\* BTreeMap::first_key_value: the lowest step present
first_key(idx) == CHOOSE s \in IndexSteps(idx) : \A t \in IndexSteps(idx) : s <= t

\* a latest() that reads the first entry of the map instead of the last
latest_first(idx) == IF IndexSteps(idx) = {} THEN 0 ELSE idx[first_key(idx)]

\* CheckpointManager::latest: the entry with the highest step (0 stands for None)
latest(idx) == IF IndexSteps(idx) = {} THEN 0 ELSE idx[last_key(idx)]

\* CheckpointManager::find_recovery_checkpoint
find_recovery_checkpoint(idx) == latest(idx)

\* CheckpointManager::get_by_step
get_by_step(idx, step) == idx[step]

\* CheckpointManager::all_checkpoints: the entries in ascending step order
all_checkpoints(idx) ==
    LET steps == SelectSeq([s \in 1..MaxStep |-> s], LAMBDA s : idx[s] # 0)
    IN [i \in 1..Len(steps) |-> [id |-> idx[steps[i]], step |-> steps[i]]]

\* CheckpointManager::cleanup_old_checkpoints (and the listener's retention loop):
\* while more than keep_count entries, remove the lowest step and spawn the
\* deletion of its path.  Result: <<index, deleted paths>>.
RECURSIVE cleanup_old_checkpoints(_, _, _)
cleanup_old_checkpoints(idx, del, keep) ==
    IF Cardinality(IndexSteps(idx)) > keep
    THEN cleanup_old_checkpoints([idx EXCEPT ![first_key(idx)] = 0],
                                 del \cup {PathOf(idx[first_key(idx)])}, keep)
    ELSE <<idx, del>>

\* An insertion at `step` made by someone else while a caller's
\* register_external_checkpoint is in flight: the caller is no longer alone, and
\* no longer on top when the step is not below its own.
Overtaken(step, except) ==
    [c \in ExtCallers |->
        IF c # except /\ ext[c].pc = "cleanup"
        THEN [ext[c] EXCEPT !.top = @ /\ step < ext[c].step, !.alone = FALSE]
        ELSE ext[c]]

\* save_async: pending entry under the pending lock, then the request is queued.
SaveAsync(step) ==
    /\ next_id <= MaxCkpts
    /\ listener.pc = "recv"
    /\ pending' = [pending EXCEPT ![next_id] = [step |-> step, status |-> "Pending", error |-> "none"]]
    /\ write_chan' = Append(write_chan, next_id)
    /\ next_id' = next_id + 1
    /\ ckptOp' = [op |-> "save_async", id |-> next_id]
    /\ UNCHANGED <<keep_count, wp, checkpoints, event_chan, listener, ext, deleted, inserted>>
    /\ UNCHANGED <<fsVars, saveVars, lockVars, nonCkpt>>

\* WriterEvent::Failed carries e.to_string(), Completed carries no error
ErrorText(kind) == IF kind = "Failed" THEN "IO error" ELSE "none"

WriterStep_newest ==
    /\ write_chan # <<>>
    /\ \E kind \in {"Completed", "Failed"} :
         event_chan' = Append(event_chan, [kind |-> kind, id |-> write_chan[Len(write_chan)],
                                           error |-> ErrorText(kind)])
    /\ write_chan' = SubSeq(write_chan, 1, Len(write_chan) - 1)
    /\ ckptOp' = NoCkptOp
    /\ UNCHANGED <<keep_count, wp, checkpoints, pending, listener, ext, deleted, inserted, next_id>>
    /\ UNCHANGED <<fsVars, saveVars, lockVars, nonCkpt>>

\* writer_loop: take a request, write it, report Completed or Failed.
WriterStep ==
    /\ write_chan # <<>>
    /\ \E kind \in {"Completed", "Failed"} :
         event_chan' = Append(event_chan, [kind |-> kind, id |-> Head(write_chan),
                                           error |-> ErrorText(kind)])
    /\ write_chan' = Tail(write_chan)
    /\ ckptOp' = NoCkptOp
    /\ UNCHANGED <<keep_count, wp, checkpoints, pending, listener, ext, deleted, inserted, next_id>>
    /\ UNCHANGED <<fsVars, saveVars, lockVars, nonCkpt>>

\* save_async, lines 234-235: the path of the request, <base_path>/<id>.ckpt
request_path(id) == <<"ckpt", id>>

\* write_checkpoint, line 135: request.path.with_extension("tmp")
with_extension_same(path) == path

with_extension_tmp(path) == <<"tmp", path[2]>>

\* the writer's report to the listener; the task is back at recv()
WriterReport(kind) ==
    /\ event_chan' = Append(event_chan, [kind |-> kind, id |-> writer.id,
                                         error |-> ErrorText(kind)])
    /\ writer' = IdleWriter

\* writer_loop, rx.recv(): the next request
WrRecv ==
    /\ writer.pc = "recv"
    /\ write_chan # <<>>
    /\ writer' = [pc |-> "create", id |-> Head(write_chan)]
    /\ write_chan' = Tail(write_chan)
    /\ ckptOp' = NoCkptOp
    /\ UNCHANGED <<keep_count, wp, checkpoints, pending, event_chan, listener, ext, deleted,
                   inserted, next_id, files>>
    /\ UNCHANGED <<saveVars, lockVars, nonCkpt>>

\* write_checkpoint, the steps of lines 138-158 one by one.  Every step either
\* succeeds or returns an I/O error, which ends the write with a Failed event.
\* File::create on the temporary path (the directory exists since startup)
WrCreate ==
    /\ writer.pc = "create"
    /\ \/ /\ files' = [files EXCEPT ![with_extension_tmp(request_path(writer.id))] = "empty"]
          /\ writer' = [writer EXCEPT !.pc = "header"]
          /\ UNCHANGED event_chan
       \/ /\ WriterReport("Failed")
          /\ UNCHANGED files
    /\ ckptOp' = NoCkptOp
    /\ UNCHANGED <<keep_count, wp, checkpoints, pending, write_chan, listener, ext, deleted,
                   inserted, next_id>>
    /\ UNCHANGED <<saveVars, lockVars, nonCkpt>>

\* write_all(&header)
WrHeader ==
    /\ writer.pc = "header"
    /\ \/ /\ files' = [files EXCEPT ![with_extension_tmp(request_path(writer.id))] = "header"]
          /\ writer' = [writer EXCEPT !.pc = "data"]
          /\ UNCHANGED event_chan
       \/ /\ WriterReport("Failed")
          /\ UNCHANGED files
    /\ ckptOp' = NoCkptOp
    /\ UNCHANGED <<keep_count, wp, checkpoints, pending, write_chan, listener, ext, deleted,
                   inserted, next_id>>
    /\ UNCHANGED <<saveVars, lockVars, nonCkpt>>

\* write_all(&data): the whole payload, or an error after a part of it
WrData ==
    /\ writer.pc = "data"
    /\ \/ /\ files' = [files EXCEPT ![with_extension_tmp(request_path(writer.id))] = "full"]
          /\ writer' = [writer EXCEPT !.pc = "sync"]
          /\ UNCHANGED event_chan
       \/ /\ WriterReport("Failed")
          /\ \E left \in {"header", "partial"} :
               files' = [files EXCEPT ![with_extension_tmp(request_path(writer.id))] = left]
    /\ ckptOp' = NoCkptOp
    /\ UNCHANGED <<keep_count, wp, checkpoints, pending, write_chan, listener, ext, deleted,
                   inserted, next_id>>
    /\ UNCHANGED <<saveVars, lockVars, nonCkpt>>

\* sync_all
WrSync ==
    /\ writer.pc = "sync"
    /\ \/ /\ writer' = [writer EXCEPT !.pc = "rename"]
          /\ UNCHANGED event_chan
       \/ WriterReport("Failed")
    /\ ckptOp' = NoCkptOp
    /\ UNCHANGED <<keep_count, wp, checkpoints, pending, write_chan, listener, ext, deleted,
                   inserted, next_id, files>>
    /\ UNCHANGED <<saveVars, lockVars, nonCkpt>>

\* rename(temp_path, request.path), then the Completed event
WrRename ==
    /\ writer.pc = "rename"
    /\ \/ /\ LET to == request_path(writer.id)
                 from == with_extension_tmp(to)
             IN files' = [f \in Paths |-> IF f = to THEN files[from]
                                          ELSE IF f = from THEN "absent"
                                          ELSE files[f]]
          /\ WriterReport("Completed")
       \/ /\ WriterReport("Failed")
          /\ UNCHANGED files
    /\ ckptOp' = NoCkptOp
    /\ UNCHANGED <<keep_count, wp, checkpoints, pending, write_chan, listener, ext, deleted,
                   inserted, next_id>>
    /\ UNCHANGED <<saveVars, lockVars, nonCkpt>>

\* The process is killed at any point and started again.  CheckpointManager::new
\* (manager.rs 103-210) creates the directory if it is missing and starts from an
\* empty index, an empty pending map and empty channels; the files are what the
\* old process left.  Ids are fresh (uuid) across restarts.
Restart ==
    /\ checkpoints' = [s \in Steps |-> 0]
    /\ pending' = [i \in CkptIds |-> NoPending]
    /\ write_chan' = <<>>
    /\ event_chan' = <<>>
    /\ listener' = [pc |-> "recv", id |-> 0]
    /\ ext' = [c \in ExtCallers |-> IdleExt]
    /\ wp' = [c \in WaitCallers |-> IdleWait]
    /\ writer' = IdleWriter
    /\ ckptOp' = [op |-> "new"]
    /\ UNCHANGED <<keep_count, deleted, inserted, next_id, files>>
    /\ UNCHANGED <<saveVars, lockVars, nonCkpt>>

ListenerCompleted_unlocked ==
    /\ listener.pc = "recv"
    /\ event_chan # <<>>
    /\ Head(event_chan).kind = "Completed"
    /\ \/ /\ pending[Head(event_chan).id].status # "Completed"
          /\ pending' = [pending EXCEPT ![Head(event_chan).id].status = "Completed"]
          /\ UNCHANGED <<checkpoints, inserted, ext, listener, event_chan>>
       \/ /\ pending[Head(event_chan).id].status = "Completed"
          /\ checkpoints' = [checkpoints EXCEPT ![pending[Head(event_chan).id].step] =
                                                   Head(event_chan).id]
          /\ inserted' = inserted \cup {[id |-> Head(event_chan).id,
                                         step |-> pending[Head(event_chan).id].step,
                                         via |-> "save_async"]}
          /\ ext' = Overtaken(pending[Head(event_chan).id].step, 0)
          /\ listener' = [pc |-> "cleanup", id |-> Head(event_chan).id]
          /\ event_chan' = Tail(event_chan)
          /\ UNCHANGED pending
    /\ ckptOp' = NoCkptOp
    /\ UNCHANGED <<keep_count, wp, write_chan, deleted, next_id>>
    /\ UNCHANGED <<fsVars, saveVars, lockVars, nonCkpt>>

\* listener, Completed (lines 138-160): pending lock taken, status set, metadata
\* inserted under a short write lock on the index.
ListenerCompleted ==
    /\ listener.pc = "recv"
    /\ event_chan # <<>>
    /\ Head(event_chan).kind = "Completed"
    /\ LET id == Head(event_chan).id
           step == pending[id].step
       IN /\ pending' = [pending EXCEPT ![id].status = "Completed"]
          /\ checkpoints' = [checkpoints EXCEPT ![step] = id]
          /\ inserted' = inserted \cup {[id |-> id, step |-> step, via |-> "save_async"]}
          /\ ext' = Overtaken(step, 0)
          /\ listener' = [pc |-> "cleanup", id |-> id]
    /\ event_chan' = Tail(event_chan)
    /\ ckptOp' = NoCkptOp
    /\ UNCHANGED <<keep_count, wp, write_chan, deleted, next_id>>
    /\ UNCHANGED <<fsVars, saveVars, lockVars, nonCkpt>>

\* listener, Completed (lines 168-184): index write lock again, retention loop,
\* then both locks are released.
ListenerCleanup ==
    /\ listener.pc = "cleanup"
    /\ LET r == cleanup_old_checkpoints(checkpoints, deleted, keep_count)
       IN checkpoints' = r[1] /\ deleted' = r[2]
    /\ listener' = [pc |-> "recv", id |-> 0]
    /\ ckptOp' = NoCkptOp
    /\ UNCHANGED <<keep_count, wp, pending, write_chan, event_chan, ext, inserted, next_id>>
    /\ UNCHANGED <<fsVars, saveVars, lockVars, nonCkpt>>

ListenerFailed_drop ==
    /\ listener.pc = "recv"
    /\ event_chan # <<>>
    /\ Head(event_chan).kind = "Failed"
    /\ event_chan' = Tail(event_chan)
    /\ ckptOp' = NoCkptOp
    /\ UNCHANGED <<keep_count, wp, checkpoints, pending, write_chan, listener, ext, deleted,
                   inserted, next_id>>
    /\ UNCHANGED <<fsVars, saveVars, lockVars, nonCkpt>>

ListenerFailed_insert ==
    /\ listener.pc = "recv"
    /\ event_chan # <<>>
    /\ Head(event_chan).kind = "Failed"
    /\ pending' = [pending EXCEPT ![Head(event_chan).id].status = "Failed",
                                  ![Head(event_chan).id].error = Head(event_chan).error]
    /\ checkpoints' = [checkpoints EXCEPT ![pending[Head(event_chan).id].step] =
                                             Head(event_chan).id]
    /\ event_chan' = Tail(event_chan)
    /\ ckptOp' = NoCkptOp
    /\ UNCHANGED <<keep_count, wp, write_chan, listener, ext, deleted, inserted, next_id>>
    /\ UNCHANGED <<fsVars, saveVars, lockVars, nonCkpt>>

\* listener, Failed (lines 186-197)
ListenerFailed ==
    /\ listener.pc = "recv"
    /\ event_chan # <<>>
    /\ Head(event_chan).kind = "Failed"
    /\ pending' = [pending EXCEPT ![Head(event_chan).id].status = "Failed",
                                  ![Head(event_chan).id].error = Head(event_chan).error]
    /\ event_chan' = Tail(event_chan)
    /\ ckptOp' = NoCkptOp
    /\ UNCHANGED <<keep_count, wp, checkpoints, write_chan, listener, ext, deleted, inserted, next_id>>
    /\ UNCHANGED <<fsVars, saveVars, lockVars, nonCkpt>>

\* register_external_checkpoint, lines 362-372: insert under the index write lock,
\* then drop it.  `top` records that no entry had a higher step at that moment,
\* `alone` that no other insertion was waiting for its retention.
ExtInsert(c, step) ==
    /\ ext[c].pc = "idle"
    /\ next_id <= MaxCkpts
    /\ checkpoints' = [checkpoints EXCEPT ![step] = next_id]
    /\ inserted' = inserted \cup {[id |-> next_id, step |-> step, via |-> "external"]}
    /\ ext' = [Overtaken(step, c) EXCEPT
                  ![c] = [pc |-> "cleanup", id |-> next_id, step |-> step,
                          top |-> \A t \in IndexSteps(checkpoints) : t <= step,
                          alone |-> /\ listener.pc = "recv"
                                    /\ \A d \in ExtCallers \ {c} : ext[d].pc = "idle"]]
    /\ next_id' = next_id + 1
    /\ ckptOp' = NoCkptOp
    /\ UNCHANGED <<keep_count, wp, pending, write_chan, event_chan, listener, deleted>>
    /\ UNCHANGED <<fsVars, saveVars, lockVars, nonCkpt>>

\* register_external_checkpoint, line 383: cleanup_old_checkpoints, then return.
ExtCleanup(c) ==
    /\ ext[c].pc = "cleanup"
    /\ LET r == cleanup_old_checkpoints(checkpoints, deleted, keep_count)
       IN checkpoints' = r[1] /\ deleted' = r[2]
    /\ ext' = [ext EXCEPT ![c] = IdleExt]
    /\ ckptOp' = [op |-> "register_external_checkpoint", id |-> ext[c].id,
                  step |-> ext[c].step, top |-> ext[c].top, alone |-> ext[c].alone]
    /\ UNCHANGED <<keep_count, wp, pending, write_chan, event_chan, listener, inserted, next_id>>
    /\ UNCHANGED <<fsVars, saveVars, lockVars, nonCkpt>>

\* get_latest_checkpoint (service.rs 548-616): find_recovery_checkpoint on the
\* manager; has_checkpoint and resume_step come from the entry it returns.  The
\* shard assignments of the response are computed per registered dataset and are
\* left out: the specification that uses this action registers no dataset.
RpcGetLatestCheckpoint_first(w) ==
    /\ lastOp' = [op |-> "GetLatestCheckpoint", w |-> w, ok |-> TRUE,
                  has_checkpoint |-> latest_first(checkpoints) # 0,
                  resume_step |-> IF latest_first(checkpoints) = 0 THEN 0
                                  ELSE first_key(checkpoints)]
    /\ UNCHANGED <<registryVars, barrierVars, ckptVars, limiter, sm, dupRegistered>>

RpcGetLatestCheckpoint(w) ==
    /\ lastOp' = [op |-> "GetLatestCheckpoint", w |-> w, ok |-> TRUE,
                  has_checkpoint |-> find_recovery_checkpoint(checkpoints) # 0,
                  resume_step |-> IF find_recovery_checkpoint(checkpoints) = 0 THEN 0
                                  ELSE last_key(checkpoints)]
    /\ UNCHANGED <<registryVars, barrierVars, ckptVars, limiter, sm, dupRegistered>>

\* wait_pending (lines 411-453).  The pending lock is free only while the
\* listener is between events.
FailedRecords == {i \in CkptIds : pending[i].status = "Failed"}

has_pending == \E i \in CkptIds : pending[i].status \in {"Pending", "InProgress"}

\* `before` (history): the ids handed out by the save_async calls that returned
\* before this call.
WaitStart(c) ==
    /\ wp[c].pc \in {"idle", "done"}
    /\ wp' = [wp EXCEPT ![c] = [IdleWait EXCEPT !.pc = "poll", !.before = next_id - 1]]
    /\ ckptOp' = NoCkptOp
    /\ UNCHANGED <<keep_count, checkpoints, pending, write_chan, event_chan, listener, ext,
                   deleted, inserted, next_id>>
    /\ UNCHANGED <<fsVars, saveVars, lockVars, nonCkpt>>

\* lines 413-422: one look at the pending map under its read lock
WaitPoll(c) ==
    /\ wp[c].pc = "poll"
    /\ listener.pc = "recv"
    /\ wp' = [wp EXCEPT ![c].pc = IF has_pending THEN "sleep" ELSE "failures",
                        ![c].slept = @ \/ has_pending,
                        ![c].at_end = IF has_pending THEN {} ELSE FailedRecords]
    /\ ckptOp' = NoCkptOp
    /\ UNCHANGED <<keep_count, checkpoints, pending, write_chan, event_chan, listener, ext,
                   deleted, inserted, next_id>>
    /\ UNCHANGED <<fsVars, saveVars, lockVars, nonCkpt>>

\* line 424: sleep(100 ms), then poll again
WaitSleep(c) ==
    /\ wp[c].pc = "sleep"
    /\ wp' = [wp EXCEPT ![c].pc = "poll"]
    /\ ckptOp' = NoCkptOp
    /\ UNCHANGED <<keep_count, checkpoints, pending, write_chan, event_chan, listener, ext,
                   deleted, inserted, next_id>>
    /\ UNCHANGED <<fsVars, saveVars, lockVars, nonCkpt>>

WaitFailures_one(c) ==
    /\ wp[c].pc = "failures"
    /\ listener.pc = "recv"
    /\ wp' = [wp EXCEPT ![c].pc = "done",
                        ![c].result = IF FailedRecords # {}
                                      THEN "CheckpointWriteFailed" ELSE "Ok",
                        ![c].named = {i \in FailedRecords : \A j \in FailedRecords : i <= j}]
    /\ ckptOp' = NoCkptOp
    /\ UNCHANGED <<keep_count, checkpoints, pending, write_chan, event_chan, listener, ext,
                   deleted, inserted, next_id>>
    /\ UNCHANGED <<fsVars, saveVars, lockVars, nonCkpt>>

\* lines 427-452: the Failed records, read under a second read lock, decide the
\* result; the error message lists every one of them.  `at_end` (history) is
\* the set of Failed records seen by the poll that ended the loop.
WaitFailures(c) ==
    /\ wp[c].pc = "failures"
    /\ listener.pc = "recv"
    /\ wp' = [wp EXCEPT ![c].pc = "done",
                        ![c].result = IF FailedRecords # {}
                                      THEN "CheckpointWriteFailed" ELSE "Ok",
                        ![c].named = FailedRecords]
    /\ ckptOp' = NoCkptOp
    /\ UNCHANGED <<keep_count, checkpoints, pending, write_chan, event_chan, listener, ext,
                   deleted, inserted, next_id>>
    /\ UNCHANGED <<fsVars, saveVars, lockVars, nonCkpt>>

\* save_async step by step.  Lines 222-231: the Pending record is inserted under
\* a short write lock on the pending map (free only while the listener is
\* between events).  No manager exists when mpsc::channel panicked.
SvInsert(c, step) ==
    /\ save[c].pc = "idle"
    /\ write_tx.state # "panicked"
    /\ next_id <= MaxCkpts
    /\ listener.pc = "recv"
    /\ pending' = [pending EXCEPT ![next_id] = [step |-> step, status |-> "Pending", error |-> "none"]]
    /\ save' = [save EXCEPT ![c] = [pc |-> "send", id |-> next_id, step |-> step,
                                   result |-> "none"]]
    /\ next_id' = next_id + 1
    /\ ckptOp' = NoCkptOp
    /\ UNCHANGED <<keep_count, wp, checkpoints, write_chan, event_chan, listener, ext, deleted,
                   inserted, write_tx>>
    /\ UNCHANGED <<fsVars, lockVars, nonCkpt>>

\* save_async, lines 249-257: write_tx.send(request).await waits while the channel
\* holds `capacity` requests; on a closed channel the error is mapped to
\* ChannelClosed and returned by `?`; otherwise the id is returned.
SvSend(c) ==
    /\ save[c].pc = "send"
    /\ \/ /\ write_tx.state = "closed"
          /\ ckptOp' = [op |-> "save_async", id |-> save[c].id, result |-> "ChannelClosed"]
          /\ UNCHANGED write_chan
       \/ /\ write_tx.state = "open"
          /\ Len(write_chan) < write_tx.capacity
          /\ write_chan' = Append(write_chan, save[c].id)
          /\ ckptOp' = [op |-> "save_async", id |-> save[c].id, result |-> "Ok"]
    /\ save' = [save EXCEPT ![c] = IdleSave]
    /\ UNCHANGED <<keep_count, wp, checkpoints, pending, event_chan, listener, ext, deleted,
                   inserted, next_id, write_tx>>
    /\ UNCHANGED <<fsVars, lockVars, nonCkpt>>

\* writer_loop while its task is alive
SvWriter ==
    /\ write_tx.state = "open"
    /\ WriterStep

\* The writer task ends (a panic inside write_checkpoint, or the runtime shutting
\* down): the receiver is dropped with whatever it still held, and the channel
\* is closed for every sender.
WriterTaskEnds ==
    /\ write_tx.state = "open"
    /\ write_tx' = [write_tx EXCEPT !.state = "closed"]
    /\ write_chan' = <<>>
    /\ ckptOp' = NoCkptOp
    /\ UNCHANGED <<keep_count, wp, checkpoints, pending, event_chan, listener, ext, deleted,
                   inserted, next_id, save>>
    /\ UNCHANGED <<fsVars, lockVars, nonCkpt>>

NextCkpt ==
    \/ \E step \in Steps : SaveAsync(step)
    \/ WriterStep
    \/ ListenerCompleted
    \/ ListenerCleanup
    \/ ListenerFailed
    \/ \E c \in ExtCallers, step \in Steps : ExtInsert(c, step)
    \/ \E c \in ExtCallers : ExtCleanup(c)

\* the asynchronous write pipeline with callers waiting on it
NextPipeline ==
    \/ \E step \in Steps : SaveAsync(step)
    \/ WriterStep
    \/ ListenerCompleted
    \/ ListenerCleanup
    \/ ListenerFailed
    \/ \E c \in WaitCallers : WaitStart(c)
    \/ \E c \in WaitCallers : WaitPoll(c)
    \/ \E c \in WaitCallers : WaitSleep(c)
    \/ \E c \in WaitCallers : WaitFailures(c)

InitCkptSpec ==
    /\ \E keep \in KeepCounts : InitCkpt(keep)
    /\ InitRegistry(MaxWorkers)
    /\ barriers = [b \in BarrierIds |-> 0]
    /\ barrierObjs = <<>>
    /\ call = [c \in Callers |-> IdleCall]
    /\ sm = [k \in Coords |-> NewShardManager(1)]
    /\ lastOp = NoOp
    /\ dupRegistered = FALSE
    /\ limiter = RateLimiter_new(MaxRate, MaxBurst)

SpecCkpt == InitCkptSpec /\ [][NextCkpt]_vars

\* The writer and the listener are spawned tokio tasks that loop on recv() and
\* a wait_pending caller wakes from every sleep: each of their steps is taken
\* if it stays possible.  Callers of save_async and of wait_pending are under
\* no obligation to call.
FairCkpt ==
    /\ WF_vars(WriterStep)
    /\ WF_vars(ListenerCompleted)
    /\ WF_vars(ListenerCleanup)
    /\ WF_vars(ListenerFailed)
    /\ \A c \in WaitCallers :
          WF_vars(WaitPoll(c)) /\ WF_vars(WaitSleep(c)) /\ WF_vars(WaitFailures(c))

SpecCkptFair == InitCkptSpec /\ [][NextPipeline]_vars /\ FairCkpt

SpecPipeline == InitCkptSpec /\ [][NextPipeline]_vars

(***************************************************************************)
(* The manager's two locks (checkpoint/src/manager.rs): what each operation *)
(* acquires and releases, in program order.  No guard lives across an await.*)
(***************************************************************************)
Acq(l, mode) == <<"acq", l, mode>>
Rel(l, mode) == <<"rel", l, mode>>

ListenerOps == {"listener_completed", "listener_failed"}
CallerOps == {"mark_completed", "mark_failed", "register_external_checkpoint", "save_async",
              "wait_pending", "index_query", "pending_writes"}
LockOps == ListenerOps \cup CallerOps

LockProgram_kept(op) ==
    CASE op = "listener_completed" ->
            <<Acq("pending", "w"), Acq("checkpoints", "w"), Rel("checkpoints", "w"),
              Acq("checkpoints", "w"), Rel("checkpoints", "w"), Rel("pending", "w")>>
      [] op \in {"listener_failed", "mark_failed", "save_async"} ->
            <<Acq("pending", "w"), Rel("pending", "w")>>
      [] op = "mark_completed" ->
            <<Acq("pending", "w"), Acq("checkpoints", "w"),
              Acq("checkpoints", "w"), Rel("checkpoints", "w"), Rel("checkpoints", "w"),
              Rel("pending", "w")>>
      [] op = "register_external_checkpoint" ->
            <<Acq("checkpoints", "w"), Rel("checkpoints", "w"),
              Acq("checkpoints", "w"), Rel("checkpoints", "w")>>
      [] op = "wait_pending" ->
            <<Acq("pending", "r"), Rel("pending", "r"), Acq("pending", "r"),
              Rel("pending", "r"), Acq("pending", "r"), Rel("pending", "r")>>
      [] op = "index_query" -> <<Acq("checkpoints", "r"), Rel("checkpoints", "r")>>
      [] op = "pending_writes" -> <<Acq("pending", "r"), Rel("pending", "r")>>

\* listener_completed (lines 138-184): pending.write() is held for the whole
\*   branch; the index is write-locked for the insertion (a temporary, 160) and
\*   again for retention (169).
\* listener_failed (186-197), mark_failed (325-336): pending.write() alone.
\* save_async (231): pending.write().insert is a temporary; the send that
\*   follows holds no lock.
\* mark_completed (261-322): pending.write() held to the end; the insertion's
\*   index guard (303) is a temporary, released before cleanup_old_checkpoints
\*   (456-474) locks the index again.
\* register_external_checkpoint (341-384): the index write guard is dropped
\*   explicitly (372) before cleanup_old_checkpoints takes it again.
\* wait_pending (411-453): a poll under pending.read(), the sleep with no lock
\*   held, a poll again, then the read that collects the failures.
\* index_query: latest, get_by_step, all_checkpoints, load,
\*   find_recovery_checkpoint (387-403, 477-496), one checkpoints.read() each.
\* pending_writes (406-408): pending.read().
LockProgram(op) ==
    CASE op = "listener_completed" ->
            <<Acq("pending", "w"), Acq("checkpoints", "w"), Rel("checkpoints", "w"),
              Acq("checkpoints", "w"), Rel("checkpoints", "w"), Rel("pending", "w")>>
      [] op \in {"listener_failed", "mark_failed", "save_async"} ->
            <<Acq("pending", "w"), Rel("pending", "w")>>
      [] op = "mark_completed" ->
            <<Acq("pending", "w"), Acq("checkpoints", "w"), Rel("checkpoints", "w"),
              Acq("checkpoints", "w"), Rel("checkpoints", "w"), Rel("pending", "w")>>
      [] op = "register_external_checkpoint" ->
            <<Acq("checkpoints", "w"), Rel("checkpoints", "w"),
              Acq("checkpoints", "w"), Rel("checkpoints", "w")>>
      [] op = "wait_pending" ->
            <<Acq("pending", "r"), Rel("pending", "r"), Acq("pending", "r"),
              Rel("pending", "r"), Acq("pending", "r"), Rel("pending", "r")>>
      [] op = "index_query" -> <<Acq("checkpoints", "r"), Rel("checkpoints", "r")>>
      [] op = "pending_writes" -> <<Acq("pending", "r"), Rel("pending", "r")>>

\* the listener is one spawned task; the other threads are callers
ListenerThread == CHOOSE t \in Threads : \A u \in Threads : t <= u

InLockOp(t) == thr[t].op \in LockOps
Instr(t) == LockProgram(thr[t].op)[thr[t].pc]

\* RwLock: a writer needs the lock free, a reader needs no writer
Available(l, mode) ==
    /\ locks[l].writer = {}
    /\ mode = "w" => locks[l].readers = {}

\* an operation is entered
LkBegin(t, op) ==
    /\ thr[t] = IdleThread
    /\ (t = ListenerThread) <=> (op \in ListenerOps)
    /\ thr' = [thr EXCEPT ![t] = [op |-> op, pc |-> 1, queued |-> FALSE]]
    /\ UNCHANGED <<locks, ckptCore, nonCkpt>>

\* lock.write() / lock.read() is called: the thread lines up for the lock
LkRequest(t) ==
    /\ InLockOp(t)
    /\ Instr(t)[1] = "acq"
    /\ ~thr[t].queued
    /\ locks' = [locks EXCEPT ![Instr(t)[2]].queue = Append(@, t)]
    /\ thr' = [thr EXCEPT ![t].queued = TRUE]
    /\ UNCHANGED <<ckptCore, nonCkpt>>

\* the lock is handed to the thread at the head of the line
LkGrant(t) ==
    /\ InLockOp(t)
    /\ Instr(t)[1] = "acq"
    /\ thr[t].queued
    /\ LET l == Instr(t)[2]
           mode == Instr(t)[3]
       IN /\ locks[l].queue # <<>>
          /\ Head(locks[l].queue) = t
          /\ Available(l, mode)
          /\ locks' = [locks EXCEPT ![l].queue = Tail(@),
                                    ![l].writer = IF mode = "w" THEN {t} ELSE @,
                                    ![l].readers = IF mode = "r" THEN @ \cup {t} ELSE @]
    /\ thr' = [thr EXCEPT ![t].pc = @ + 1, ![t].queued = FALSE]
    /\ UNCHANGED <<ckptCore, nonCkpt>>

\* a guard is dropped; after the last one the operation returns
LkRelease(t) ==
    /\ InLockOp(t)
    /\ Instr(t)[1] = "rel"
    /\ locks' = [locks EXCEPT ![Instr(t)[2]].writer = @ \ {t},
                              ![Instr(t)[2]].readers = @ \ {t}]
    /\ thr' = [thr EXCEPT ![t] = IF thr[t].pc = Len(LockProgram(thr[t].op))
                                 THEN IdleThread
                                 ELSE [thr[t] EXCEPT !.pc = @ + 1]]
    /\ UNCHANGED <<ckptCore, nonCkpt>>

NextLocks ==
    \/ \E t \in Threads, op \in LockOps : LkBegin(t, op)
    \/ \E t \in Threads : LkRequest(t)
    \/ \E t \in Threads : LkGrant(t)
    \/ \E t \in Threads : LkRelease(t)

SpecLocks == Init /\ [][NextLocks]_vars

\* Every thread that called lock.write() or lock.read() keeps running, the lock
\* is handed over in arrival order once it is free, and a guard is dropped when
\* its scope ends.  Nobody is obliged to start an operation.
FairLocks ==
    \A t \in Threads :
        WF_vars(LkRequest(t)) /\ WF_vars(LkGrant(t)) /\ WF_vars(LkRelease(t))

SpecLocksFair == Init /\ [][NextLocks]_vars /\ FairLocks

\* managers built with any write_buffer_size; save_async taken step by step
\* against a bounded channel and a writer task that may end
InitSaveSpec ==
    /\ \E b \in BufferSizes : InitCkptWith(MaxKeepCount, b)
    /\ InitRegistry(MaxWorkers)
    /\ barriers = [b \in BarrierIds |-> 0]
    /\ barrierObjs = <<>>
    /\ call = [c \in Callers |-> IdleCall]
    /\ sm = [k \in Coords |-> NewShardManager(1)]
    /\ lastOp = NoOp
    /\ dupRegistered = FALSE
    /\ limiter = RateLimiter_new(MaxRate, MaxBurst)

NextSave ==
    \/ \E c \in SaveCallers, step \in Steps : SvInsert(c, step)
    \/ \E c \in SaveCallers : SvSend(c)
    \/ SvWriter
    \/ WriterTaskEnds
    \/ ListenerCompleted
    \/ ListenerCleanup
    \/ ListenerFailed
    \/ \E c \in WaitCallers : WaitStart(c)
    \/ \E c \in WaitCallers : WaitPoll(c)
    \/ \E c \in WaitCallers : WaitSleep(c)
    \/ \E c \in WaitCallers : WaitFailures(c)

SpecSave == InitSaveSpec /\ [][NextSave]_vars

\* the write pipeline alone: save_async callers, the writer, the listener
NextListener ==
    \/ \E step \in Steps : SaveAsync(step)
    \/ WriterStep
    \/ ListenerCompleted
    \/ ListenerCleanup
    \/ ListenerFailed

SpecListener == InitCkptSpec /\ [][NextListener]_vars

\* the writer task step by step on the checkpoint directory, with restarts
NextWrite ==
    \/ \E step \in Steps : SaveAsync(step)
    \/ WrRecv
    \/ WrCreate
    \/ WrHeader
    \/ WrData
    \/ WrSync
    \/ WrRename
    \/ Restart

SpecWrite == InitCkptSpec /\ [][NextWrite]_vars

\* recovery requests against checkpoint notifications and a changing membership
\* (registrations with one well-formed id and port)
RecoveryRequestId == CHOOSE id \in RequestIds : validate_worker_id(id) = "Ok"

RecoveryRequestPort == CHOOSE port \in RequestPorts : validate_port(port) = "Ok"

NextRecovery ==
    \/ \E w \in WorkerIds : RpcRegisterWorker(w, RecoveryRequestId, RecoveryRequestPort)
    \/ \E w \in WorkerIds : RpcDeregisterWorker(w)
    \/ \E c \in ExtCallers, step \in Steps : ExtInsert(c, step)
    \/ \E c \in ExtCallers : ExtCleanup(c)
    \/ \E w \in WorkerIds : RpcGetLatestCheckpoint(w)

SpecRecovery == Init /\ [][NextRecovery]_vars

(***************************************************************************)
(* Claims                                                                  *)
(***************************************************************************)
Occurrences(list, k) == Cardinality({i \in 1..Len(list) : list[i] = k})

\* C1: when the first barrier was created with expected count K >= 1 and exactly K
\* WaitBarrier calls have been made and have all returned (none cut short by a
\* timer that fired while the barrier was still filling), every caller was
\* released with participants = K and the arrival orders are exactly 1..K.
C1_AllReleased ==
    LET Started == {c \in Callers : call[c].pc # "idle"}
        Returned(c) == call[c].pc \in {"done", "timeout", "panic"}
    IN (/\ Len(barrierObjs) >= 1
        /\ barrierObjs[1].expected >= 1
        /\ Cardinality(Started) = barrierObjs[1].expected
        /\ \A c \in Started : Returned(c) /\ ~call[c].early)
       => /\ \A c \in Started : /\ call[c].released
                                 /\ call[c].participants = barrierObjs[1].expected
          /\ {call[c].order : c \in Started} = 1..barrierObjs[1].expected

\* C2: the step index never holds more than keep_count entries in a state a
\* concurrent reader can observe (every state here: no step holds the index lock
\* across states).
C2_IndexWithinKeepCount == Cardinality(IndexSteps(checkpoints)) <= keep_count

\* C3: after any sequence of shard-manager register_worker and remove_worker calls
\* the ranks of the registered workers are exactly 0..W-1, each held once.
C3_RanksDense ==
    LET s == sm[1]
        W == Cardinality(RankedWorkers(s))
    IN {s.worker_ranks[w] : w \in RankedWorkers(s)} = 0..(W - 1)

\* C4: after any sequence of RegisterWorker / DeregisterWorker calls the ranks in
\* the registry's worker records are exactly 0..worldSize-1.
C4_RegistryRanksDense ==
    {workers[w] : w \in {v \in WorkerIds : workers[v] # NoRank}} = 0..(world_size - 1)

\* C5: for every dataset, epoch, shard count C and world size W >= 1 the lists
\* get_worker_shards(d, e, C, r, W), r = 0..W-1, are pairwise disjoint, their union
\* is exactly 0..C-1, and ranks r >= C get the empty list when C < W.
C5_WorkerShardsPartition ==
    \A d \in DatasetIds, e \in Epochs, C \in ShardCounts, W \in 1..(NWorkerIds + 1) :
        LET L(r) == get_worker_shards_result(sm[1], d, e, C, r, W)
            Total(k) == Cardinality({<<r, i>> \in (0..(W - 1)) \X (1..MaxShards) :
                                        i <= Len(L(r)) /\ L(r)[i] = k})
        IN /\ \A k \in 0..(C - 1) : Total(k) = 1
           /\ \A r \in 0..(W - 1) : \A i \in 1..Len(L(r)) : L(r)[i] \in 0..(C - 1)
           /\ \A r \in 0..(W - 1) : (C < W /\ r >= C) => L(r) = <<>>

\* C6: when every register_worker call was for an id not registered at the time and
\* at least one worker is left, every shard of a shuffled dataset is in the
\* get_shard_for_worker result of exactly one active worker, for every epoch.
C6_ChurnKeepsPartition ==
    LET s == sm[1]
    IN (~dupRegistered /\ s.active_workers # {}) =>
        \A d \in DatasetIds, e \in Epochs :
            (s.datasets[d] # NoDataset /\ s.datasets[d].shuffle) =>
                \A k \in 0..(s.datasets[d].total_shards - 1) :
                    Cardinality({w \in s.active_workers :
                        Occurrences(shard_ids_for_worker(s, d, w, e), k) = 1}) = 1

Quiescent ==
    /\ listener.pc = "recv"
    /\ \A c \in ExtCallers : ext[c].pc = "idle"

InsertedSteps == {r.step : r \in inserted}

DistinctSteps == Cardinality(InsertedSteps) = Cardinality(inserted)

\* the k largest steps ever inserted
LargestInserted(k) == {s \in InsertedSteps : Cardinality({t \in InsertedSteps : t > s}) < k}

\* C8: once n checkpoints with distinct steps have been inserted (by completed
\* writes or external registrations, in any order) and no retention is outstanding,
\* all_checkpoints() has min(n, keep_count) entries in ascending step order, they
\* are the largest steps ever inserted, and the deletion of the path of every
\* evicted entry has been issued.
C8_RetentionKeepsNewest ==
    (Quiescent /\ DistinctSteps) =>
        LET all == all_checkpoints(checkpoints)
            k == Min(Cardinality(inserted), keep_count)
        IN /\ Len(all) = k
           /\ \A i \in 1..Len(all) : \A j \in 1..Len(all) : i < j => all[i].step < all[j].step
           /\ {all[i].step : i \in 1..Len(all)} = LargestInserted(k)
           /\ \A i \in 1..Len(all) :
                \E r \in inserted : r.id = all[i].id /\ r.step = all[i].step
           /\ \A r \in inserted :
                r.step \notin LargestInserted(k) => PathOf(r.id) \in deleted

\* C8 witness: more checkpoints than keep_count were inserted, from both sources,
\* the lowest step not first, and retention has evicted.
C8_Witness ==
    /\ Quiescent
    /\ DistinctSteps
    /\ Cardinality(inserted) > keep_count
    /\ keep_count = MaxKeepCount
    /\ \E r \in inserted : r.via = "save_async"
    /\ \E r \in inserted : r.via = "external" /\ PathOf(r.id) \in deleted
    /\ \E r \in inserted : r.id > 1 /\ r.step \notin LargestInserted(keep_count)

\* C9: register_worker(N) called twice in a row leaves one worker N with the rank it
\* had after the first call, and the same hash ring.
C9_AddWorkerIdempotent ==
    [][(lastOp.op = "register_worker" /\ lastOp'.op = "register_worker"
        /\ lastOp'.w = lastOp.w)
       => /\ sm'[1].worker_ranks = sm[1].worker_ranks
          /\ sm'[1].active_workers = sm[1].active_workers
          /\ sm'[1].ring = sm[1].ring
          /\ sm'[1].nodes = sm[1].nodes]_vars

\* C10: two independently created coordinators that registered the same dataset
\* (same seed) and the same workers in the same order give the same shuffled order
\* and the same per-worker shards for every epoch.
C10_TwinsAgree ==
    \A d \in DatasetIds, e \in Epochs :
        sm[1].datasets[d] # NoDataset =>
            /\ sm[1].datasets[d].shuffle =>
                 shuffled_result(sm[1], d, e, sm[1].datasets[d].total_shards)
                   = shuffled_result(sm[2], d, e, sm[2].datasets[d].total_shards)
            /\ \A w \in WorkerIds :
                 shard_ids_for_worker(sm[1], d, w, e) = shard_ids_for_worker(sm[2], d, w, e)

\* C11: every get_shuffled_shards(dataset, epoch, C) returns a permutation of
\* 0..C-1, whatever calls were made before for the same (dataset, epoch).
C11_ShuffledIsPermutation ==
    lastOp.op = "get_shuffled_shards" =>
        /\ Len(lastOp.result) = lastOp.c
        /\ {lastOp.result[i] : i \in 1..Len(lastOp.result)} = 0..(lastOp.c - 1)

\* C12: every change of a registered worker's state made by a heartbeat or by
\* the liveness sweep follows an edge of the liveness state machine.
ValidEdges ==
    {<<"Initializing", "Idle">>,
     <<"Idle", "LoadingData">>, <<"Idle", "Training">>, <<"Idle", "Checkpointing">>,
     <<"Idle", "Disconnecting">>,
     <<"LoadingData", "Training">>, <<"LoadingData", "Error">>,
     <<"Training", "LoadingData">>, <<"Training", "Checkpointing">>,
     <<"Training", "Error">>, <<"Training", "Disconnecting">>,
     <<"Checkpointing", "Training">>, <<"Checkpointing", "Error">>}
    \cup {<<from, to>> : from \in HeartbeatStates \cup {"Dead", "Disconnecting"},
                         to \in {"Error", "Dead", "Recovering"}}

C12_StateChangeStep ==
    ((\E w \in WorkerIds, state \in HeartbeatStates : Heartbeat(w, state))
        \/ (\E w \in WorkerIds : CheckDeadWorkers(w)))
    => \A w \in WorkerIds :
          wstate'[w] # wstate[w] => <<wstate[w], wstate'[w]>> \in ValidEdges

C12_StateChangesFollowEdges == [][C12_StateChangeStep]_vars

\* C13: of the register calls made for one worker id with no deregister between
\* them, sequential or concurrent, exactly one succeeds.
C13_OneRegisterSucceeds == \A w \in WorkerIds : regOk[w] <= 1

\* C14: the world size never exceeds the configured maximum of workers.
C14_WorldSizeWithinMax == world_size <= max_workers

\* C15: a RegisterWorker request whose worker id is empty, longer than 128
\* characters or holds a character outside [A-Za-z0-9_.-], or whose port is
\* outside 1..65535, is answered with InvalidArgument.
C15_InvalidRegisterRejected ==
    (lastOp.op = "RegisterWorker" /\ ~lastOp.valid) => lastOp.status = "InvalidArgument"

\* C16: with no worker registered (world size 0), GetDataShard for a
\* registered dataset fails with NotFound.
C16_NoWorkersNotFound ==
    (/\ lastOp.op = "GetDataShard"
     /\ world_size = 0
     /\ sm[1].datasets[lastOp.d] # NoDataset) => lastOp.status = "NotFound"

\* C17: when one waiter of a barrier has timed out, only that waiter fails: a
\* waiter still suspended on the same barrier is released once the arrival
\* count has reached expected.  ReleaseOver(r): the count of barrier r has
\* reached expected, every caller that saw it do so has finished sending, and
\* no caller can arrive at r any more.
ReleaseOver(r) ==
    /\ barrierObjs[r].arrived >= barrierObjs[r].expected
    /\ \A b \in BarrierIds : barriers[b] # r
    /\ \A c \in Callers : call[c].ref = r => call[c].pc \notin {"arrive", "drain", "send"}

C17_OnlyTimedOutWaiterFails ==
    \A e \in Callers, d \in Callers :
        (/\ d # e
         /\ call[e].pc = "timeout"
         /\ call[d].ref = call[e].ref
         /\ ReleaseOver(call[e].ref))
        => ~(call[d].pc = "suspended" /\ call[d].chan = 0)

\* C18: a barrier's expected count is the world size its creator read; no
\* registration, deregistration or arrival changes it afterwards, and every
\* arrival is compared against that same value.
C18_ExpectedStep ==
    /\ \A r \in 1..Len(barrierObjs) : barrierObjs'[r].expected = barrierObjs[r].expected
    /\ Len(barrierObjs') > Len(barrierObjs) =>
          \E c \in Callers : /\ call[c].pc = "insert"
                             /\ call'[c].pc = "reget"
                             /\ barrierObjs'[Len(barrierObjs')].expected = call[c].ws
    /\ \A c \in Callers :
          (call[c].pc = "arrive" /\ call'[c].pc # "arrive") =>
              ((call'[c].pc = "drain") <=>
                   (call'[c].order >= barrierObjs[call[c].ref].expected))

C18_ExpectedFixed == [][C18_ExpectedStep]_vars

\* two callers have arrived at a barrier that is still open while the world
\* size is no longer the expected count
C18_Witness ==
    \E c \in Callers, d \in Callers :
        /\ c # d
        /\ call[c].order > 0 /\ call[d].order > 0
        /\ call[c].ref = call[d].ref
        /\ barriers[call[c].bid] = call[c].ref
        /\ barrierObjs[call[c].ref].expected # world_size

\* C19: the first arrival at a barrier whose expected count is 1, or 0 with no
\* worker registered, does not suspend: it returns released = true and the
\* barrier record is gone from the map.
C19_FirstArrivalReleased ==
    \A c \in Callers :
        (call[c].order = 1 /\ barrierObjs[call[c].ref].expected <= 1) =>
            /\ call[c].pc \in {"drain", "send", "remove", "done"}
            /\ call[c].pc = "done" =>
                  /\ call[c].released
                  /\ \A b \in BarrierIds : barriers[b] # call[c].ref

\* one first arrival has returned from a barrier with expected 0 and another
\* from a barrier with expected 1
C19_Witness ==
    \E c \in Callers, d \in Callers :
        /\ call[c].order = 1 /\ call[c].pc = "done" /\ call[c].released
        /\ barrierObjs[call[c].ref].expected = 0
        /\ call[d].order = 1 /\ call[d].pc = "done" /\ call[d].released
        /\ barrierObjs[call[d].ref].expected = 1

C21_FailureIffFailedAtPollEnd ==
    \A c \in WaitCallers :
        wp[c].pc = "done" =>
            /\ (wp[c].result = "CheckpointWriteFailed") <=> (wp[c].at_end # {})
            /\ wp[c].result = "CheckpointWriteFailed" => wp[c].at_end \subseteq wp[c].named

\* C21 (amended): the failure is decided by the Failed records read right after
\* the polling ended: a record Failed at the end of polling always gives a
\* failure, the failure names every record it read as Failed (all of them
\* still Failed), and success is returned only with no record named.
C21_FailureIffFailedWhenCollected ==
    \A c \in WaitCallers :
        wp[c].pc = "done" =>
            /\ (wp[c].result = "CheckpointWriteFailed") <=> (wp[c].named # {})
            /\ wp[c].result \in {"CheckpointWriteFailed", "Ok"}
            /\ wp[c].at_end \subseteq wp[c].named
            /\ wp[c].named \subseteq FailedRecords

\* a failure that names two Failed records
C21_Witness ==
    \E c \in WaitCallers :
        /\ wp[c].pc = "done"
        /\ wp[c].result = "CheckpointWriteFailed"
        /\ Cardinality(wp[c].named) >= 2

\* C22: a message on StreamHeartbeats has the effect and the outcome of a unary
\* Heartbeat with the same request: every step the stream takes for a message
\* is a step the unary call takes for it.
C22_StreamStep ==
    \A w \in WorkerIds, req \in HbRequests : StreamHeartbeat(w, req) => RpcHeartbeat(w, req)

C22_StreamEqualsUnary == [][C22_StreamStep]_vars

\* C23: RegisterWorker and DeregisterWorker leave the checkpoint index as it
\* is, and once a NotifyCheckpoint has inserted an entry GetLatestCheckpoint
\* answers has_checkpoint = true with the highest step of the index, whoever
\* asks.
C23_RecoveryStep ==
    /\ (\/ \E w \in WorkerIds : RpcRegisterWorker(w, RecoveryRequestId, RecoveryRequestPort)
        \/ \E w \in WorkerIds : RpcDeregisterWorker(w))
          => checkpoints' = checkpoints
    /\ \A w \in WorkerIds :
          RpcGetLatestCheckpoint(w) /\ inserted # {}
            => /\ lastOp'.has_checkpoint
               /\ IndexSteps(checkpoints) # {}
               /\ \A s \in IndexSteps(checkpoints) : lastOp'.resume_step >= s
               /\ lastOp'.resume_step \in IndexSteps(checkpoints)

C24_RemoveStep ==
    \A w \in WorkerIds :
        SMRemoveWorker(w) =>
            \A h \in HashSpace :
                /\ get_node(sm'[1].ring, h) # w
                /\ get_node(sm[1].ring, h) # w
                     => get_node(sm'[1].ring, h) = get_node(sm[1].ring, h)

C25_FinalPathComplete ==
    \A i \in CkptIds : files[request_path(i)] \in {"absent", "full"}

\* one checkpoint is in place, another write was cut after a part of its payload
C25_Witness ==
    \E i, j \in CkptIds :
        /\ files[request_path(i)] = "full"
        /\ files[with_extension_tmp(request_path(j))] = "partial"
        /\ ckptOp.op = "new"

\* C26: once startup has completed after a crash in the middle of a write, no
\* .tmp file is left under the base path.
C26_NoTempAfterStartup ==
    ckptOp.op = "new" =>
        \A i \in CkptIds : files[with_extension_tmp(request_path(i))] = "absent"

\* C27 (as stated): every bucket holds between 0 and burst tokens; a bucket
\* created at the current instant has allowed burst - tokens requests, and a
\* rejection at that instant comes after exactly burst allowed requests, with
\* retry-after 1/rate; a check by one client leaves every other client's
\* bucket as it was.
C27_Buckets(l) ==
    /\ \A c \in Clients :
          l.buckets[c].present =>
            /\ l.buckets[c].tokens \in 0..l.burst
            /\ l.buckets[c].served >= 0 => l.buckets[c].tokens + l.buckets[c].served = l.burst
    /\ (l.out.client \in Clients /\ ~l.out.allowed) =>
          /\ l.out.retry_after = <<1, l.rate>>
          /\ (l.out.at = l.now /\ l.buckets[l.out.client].served >= 0)
                => l.buckets[l.out.client].served = l.burst

C27_OthersUntouchedStep ==
    /\ C27_Buckets(limiter')
    /\ \A c \in Clients :
          RlCheck(c) =>
            \A d \in Clients \ {c} : limiter'.buckets[d] = limiter.buckets[d]

C27_OthersUntouched == [][C27_OthersUntouchedStep]_vars

\* C27 (amended): as above, but a check may remove another client's bucket
\* when that bucket was last updated stale_threshold or longer ago.
C27_OthersKeptOrStaleStep ==
    /\ C27_Buckets(limiter')
    /\ \A c \in Clients :
          RlCheck(c) =>
            \A d \in Clients \ {c} :
                \/ limiter'.buckets[d] = limiter.buckets[d]
                \/ /\ limiter.buckets[d].present
                   /\ limiter.now - limiter.buckets[d].last_update >= StaleThreshold
                   /\ limiter'.buckets[d] = NoBucket

C27_OthersKeptOrStale == [][C27_OthersKeptOrStaleStep]_vars

\* a client was rejected after it used up a burst of two at one instant, while
\* another client holds a bucket of its own
C27_Witness ==
    /\ limiter.burst = 2
    /\ ~limiter.out.allowed
    /\ limiter.out.client \in Clients
    /\ limiter.out.at = limiter.now
    /\ limiter.buckets[limiter.out.client].served = 2
    /\ \E d \in Clients \ {limiter.out.client} :
          limiter.buckets[d].present /\ limiter.buckets[d].tokens > 0

\* C28: a Failed event sets the pending record to Failed with the event's error
\* text and leaves the step index as it is; an entry enters the index only with
\* a Completed event, under the step recorded in that checkpoint's pending
\* record.
C28_ListenerStep ==
    /\ ListenerFailed =>
          /\ pending'[Head(event_chan).id].status = "Failed"
          /\ pending'[Head(event_chan).id].error = Head(event_chan).error
          /\ pending'[Head(event_chan).id].error # "none"
          /\ checkpoints' = checkpoints
    /\ \A s \in Steps :
          (checkpoints'[s] # checkpoints[s] /\ checkpoints'[s] # 0) =>
              /\ event_chan # <<>>
              /\ Head(event_chan).kind = "Completed"
              /\ checkpoints'[s] = Head(event_chan).id
              /\ pending[checkpoints'[s]].step = s
              /\ pending'[checkpoints'[s]].status = "Completed"

C28_FailedLeavesIndex == [][C28_ListenerStep]_vars

\* one write failed and is recorded with its error, another one completed and
\* is in the index under its step
C28_Witness ==
    \E i, j \in CkptIds :
        /\ pending[i].status = "Failed"
        /\ pending[i].error = "IO error"
        /\ \A s \in Steps : checkpoints[s] # i
        /\ pending[j].status = "Completed"
        /\ checkpoints[pending[j].step] = j

\* C29: writer events are handled in submission order: when the event of a
\* save_async call has updated the pending map, the event of every call
\* enqueued before it has done so already (ids are given in enqueue order).
Handled(i) == pending[i].status \in {"Completed", "Failed"}

C29_HandledInSubmissionOrder ==
    \A i, j \in CkptIds : (i < j /\ Handled(j)) => Handled(i)

\* three calls: the first failed, the second completed and is in the index,
\* the third is still waiting
C29_Witness ==
    /\ pending[1].status = "Failed"
    /\ pending[2].status = "Completed"
    /\ pending[3].status = "Pending"
    /\ \E r \in inserted : r.id = 2

\* C30: a liveness sweep marks Dead, and returns, exactly the workers that were
\* not Dead and whose last heartbeat lay more than heartbeat_timeout before the
\* visit.
C30_SweepMarksOverdue == sweep.dead = sweep.overdue

\* C31: the capacity of the write channel is max(16, write_buffer_size / 1 MiB)
\* for every write_buffer_size: never below 16, never 0.
C31_CapacityClamped ==
    write_tx.capacity = Max(MinCapacity, write_tx.buffer_size \div MiB)

\* C32: for a barrier with expected count K >= 1, no response carries an
\* arrival order or a participant count greater than K.
C32_OrderWithinExpected ==
    \A c \in Callers :
        (/\ call[c].pc = "done"
         /\ barrierObjs[call[c].ref].expected >= 1)
        => /\ call[c].order <= barrierObjs[call[c].ref].expected
           /\ call[c].participants <= barrierObjs[call[c].ref].expected

\* C33: the releasing caller removes from the map only the barrier it
\* released, never a newer barrier created under the same id.
C33_RemoveStep ==
    \A c \in Callers :
        (call[c].pc = "remove" /\ call'[c].pc = "done")
        => barriers[call[c].bid] \in {0, call[c].ref}

C33_RemovesOnlyOwnBarrier == [][C33_RemoveStep]_vars

\* C34: once every in-flight RegisterWorker and DeregisterWorker call has
\* returned, the registry, the rank map, the active-worker map and the hash
\* ring hold the same set of worker ids.
C34_MembershipAgrees ==
    (\A t \in Threads : thr[t] = IdleThread)
    => /\ RankedWorkers(sm[1]) = {w \in WorkerIds : workers[w] # NoRank}
       /\ sm[1].active_workers = {w \in WorkerIds : workers[w] # NoRank}
       /\ {w \in WorkerIds : InSeq(w, sm[1].nodes)} = {w \in WorkerIds : workers[w] # NoRank}

\* C35: for every registered worker, the rank the registry stores (the one
\* RegisterWorker returned) is the rank the shard manager partitions with.
C35_RanksAgree ==
    \A w \in WorkerIds :
        workers[w] # NoRank => sm[1].worker_ranks[w] = workers[w]

\* C36: concurrent register_worker calls for distinct ids assign distinct
\* ranks: no two registered workers hold the same rank.
C36_DistinctRanks ==
    \A v \in RankedWorkers(sm[1]), w \in RankedWorkers(sm[1]) :
        v # w => sm[1].worker_ranks[v] # sm[1].worker_ranks[w]

\* C37: remove_worker for an id that is not registered changes nothing: the
\* membership, the hash ring and every registered worker's rank stay as they
\* were.
C37_RemoveStep ==
    \A w \in WorkerIds :
        (/\ SMRemoveWorker(w)
         /\ sm[1].worker_ranks[w] = NoRank
         /\ w \notin sm[1].active_workers
         /\ ~InSeq(w, sm[1].nodes))
        => /\ sm'[1].active_workers = sm[1].active_workers
           /\ sm'[1].ring = sm[1].ring
           /\ sm'[1].nodes = sm[1].nodes
           /\ sm'[1].worker_ranks = sm[1].worker_ranks

C37_RemoveUnregisteredChangesNothing == [][C37_RemoveStep]_vars

\* C38: a save_async that returns ChannelClosed leaves no record in Pending
\* status behind for its checkpoint.
C38_FailedSendLeavesNoPending ==
    (ckptOp.op = "save_async" /\ ckptOp.result = "ChannelClosed")
        => pending[ckptOp.id].status # "Pending"

\* C39: when wait_pending returns success, every checkpoint submitted by a
\* save_async that returned before the call has had its metadata inserted into
\* the step index; and whoever can read the pending map never finds a record
\* Completed whose insertion has not been made.
C39_OkMeansInserted ==
    /\ \A c \in WaitCallers :
          (wp[c].pc = "done" /\ wp[c].result = "Ok")
          => \A i \in 1..wp[c].before : \E r \in inserted : r.id = i
    /\ listener.pc = "recv"
          => \A i \in CkptIds :
                pending[i].status = "Completed" => \E r \in inserted : r.id = i

\* a wait_pending call that slept has returned success for two checkpoints
\* submitted before it, one of them already evicted by retention
C39_Witness ==
    \E c \in WaitCallers :
        /\ wp[c].pc = "done" /\ wp[c].result = "Ok"
        /\ wp[c].slept
        /\ wp[c].before >= 2
        /\ \E i \in 1..wp[c].before : \A s \in Steps : checkpoints[s] # i
        /\ \E i \in 1..wp[c].before : \E s \in Steps : checkpoints[s] = i

\* C40: the pending lock and the index lock never deadlock: whenever some
\* operation is under way one of the operations under way can take its next
\* step, and every operation that was started acquires its locks and returns.
CanStep(t) ==
    /\ InLockOp(t)
    /\ \/ Instr(t)[1] = "rel"
       \/ ~thr[t].queued
       \/ /\ Head(locks[Instr(t)[2]].queue) = t
          /\ Available(Instr(t)[2], Instr(t)[3])

C40_LocksNeverDeadlock ==
    /\ []((\E t \in Threads : InLockOp(t)) => \E t \in Threads : CanStep(t))
    /\ \A t \in Threads : InLockOp(t) ~> (thr[t] = IdleThread)

\* the listener holds both locks while a mark_completed call is parked on the
\* pending lock and a register_external_checkpoint call on the index lock
C40_Witness ==
    /\ locks.pending.writer = {ListenerThread}
    /\ locks.checkpoints.writer = {ListenerThread}
    /\ \E t \in Threads : thr[t].op = "mark_completed" /\ locks.pending.queue = <<t>>
    /\ \E t \in Threads :
          thr[t].op = "register_external_checkpoint" /\ locks.checkpoints.queue = <<t>>
====
